---------------------------- MODULE Spec2Model ----------------------------
(***************************************************************************)
(* A model of safe-cli: the command parser, the rule registry, the rules,  *)
(* the analyzer and the command-line driver.                               *)
(*                                                                         *)
(* Text is modelled as a sequence of one-character strings, so that the    *)
(* code's prefix tests, substring tests, replacements and tokenization are *)
(* computed as the code computes them.                                     *)
(***************************************************************************)
EXTENDS Integers, Sequences, FiniteSets, TLC

(***************************************************************************)
(* Bounds of the model.                                                    *)
(***************************************************************************)
\* longest raw text enumerated character by character
MaxRawLen == 4
\* most words joined into a raw text
MaxWords == 4
\* most registry mutations (register / unregister / clear) in one behaviour
MaxOps == 2

\* the highest position a user picks in a selection prompt
MaxChoice == 4

(***************************************************************************)
(* Python string and list primitives used by the code.                     *)
(***************************************************************************)
\* str.startswith
StartsWith(s, p) == Len(p) <= Len(s) /\ SubSeq(s, 1, Len(p)) = p

\* "sub in s" for strings
Contains(s, sub) ==
    \E i \in 0..(Len(s) - Len(sub)) : SubSeq(s, i + 1, i + Len(sub)) = sub

\* "x in xs" for lists
InList(x, xs) == \E i \in 1..Len(xs) : xs[i] = x

RECURSIVE Replace(_, _, _)
\* str.replace(old, new): leftmost non-overlapping occurrences, old non-empty
Replace(s, old, new) ==
    IF Len(s) < Len(old) THEN s
    ELSE IF SubSeq(s, 1, Len(old)) = old
         THEN new \o Replace(SubSeq(s, Len(old) + 1, Len(s)), old, new)
         ELSE <<s[1]>> \o Replace(Tail(s), old, new)

RECURSIVE Join(_)
\* " ".join(xs)
Join(xs) ==
    IF xs = <<>> THEN <<>>
    ELSE IF Len(xs) = 1 THEN xs[1]
    ELSE xs[1] \o <<" ">> \o Join(Tail(xs))

\* the characters str.strip() and shlex treat as whitespace
Whitespace == {" ", "\t"}

RECURSIVE LStrip(_)
LStrip(s) == IF s # <<>> /\ s[1] \in Whitespace THEN LStrip(Tail(s)) ELSE s

RECURSIVE RStrip(_)
RStrip(s) ==
    IF s # <<>> /\ s[Len(s)] \in Whitespace
    THEN RStrip(SubSeq(s, 1, Len(s) - 1)) ELSE s

\* str.strip()
Strip(s) == RStrip(LStrip(s))

(***************************************************************************)
(* shlex.split(command): POSIX mode, whitespace_split, no comments.        *)
(* The state names are those of shlex.read_token: " " between tokens, "a"  *)
(* inside a word, a quote character inside quotes, "\\" after an escape.   *)
(***************************************************************************)
Quotes == {"'", "\""}
Escape == {"\\"}
EscapedQuotes == {"\""}

\* the token is emitted when it is non-empty or was quoted
Emit(tokens, token, quoted) ==
    IF token # <<>> \/ quoted THEN Append(tokens, token) ELSE tokens

\* one character read by shlex.read_token; st holds state, escapedstate, the
\* token being built, whether it was quoted and the tokens read so far
ShlexStep(st, c) ==
    IF st.state = " "
    THEN IF c \in Whitespace
         THEN [st EXCEPT !.token = <<>>, !.quoted = FALSE,
                         !.tokens = Emit(st.tokens, st.token, st.quoted)]
         ELSE IF c \in Escape
         THEN [st EXCEPT !.state = c, !.escapedstate = "a"]
         ELSE IF c \in Quotes
         THEN [st EXCEPT !.state = c]
         ELSE [st EXCEPT !.state = "a", !.token = <<c>>]
    ELSE IF st.state \in Quotes
    THEN IF c = st.state
         THEN [st EXCEPT !.state = "a", !.quoted = TRUE]
         ELSE IF c \in Escape /\ st.state \in EscapedQuotes
         THEN [st EXCEPT !.state = c, !.escapedstate = st.state,
                         !.quoted = TRUE]
         ELSE [st EXCEPT !.token = Append(st.token, c), !.quoted = TRUE]
    ELSE IF st.state \in Escape
    THEN LET kept == IF st.escapedstate \in Quotes /\ c # st.state
                        /\ c # st.escapedstate
                     THEN Append(st.token, st.state) ELSE st.token
         IN [st EXCEPT !.state = st.escapedstate, !.token = Append(kept, c)]
    ELSE \* state = "a"
         IF c \in Whitespace
         THEN [st EXCEPT !.state = " ", !.token = <<>>, !.quoted = FALSE,
                         !.tokens = Emit(st.tokens, st.token, st.quoted)]
         ELSE IF c \in Quotes
         THEN [st EXCEPT !.state = c]
         ELSE IF c \in Escape
         THEN [st EXCEPT !.state = c, !.escapedstate = "a"]
         ELSE [st EXCEPT !.token = Append(st.token, c)]

RECURSIVE ShlexRun(_, _, _, _)
\* the characters s[lo..hi] read in order from st.  The range is halved,
\* and the state after the first half is computed (by the test on it) before
\* the second half is read, so that the evaluation does not nest once per
\* character.
ShlexRun(s, lo, hi, st) ==
    IF lo > hi THEN st
    ELSE IF lo = hi THEN ShlexStep(st, s[lo])
    ELSE LET mid == (lo + hi) \div 2
             left == ShlexRun(s, lo, mid, st)
         IN IF left.state = left.state
            THEN ShlexRun(s, mid + 1, hi, left)
            ELSE left

ShlexSplit(s) ==
    LET st == ShlexRun(s, 1, Len(s),
                       [state |-> " ", escapedstate |-> " ", token |-> <<>>,
                        quoted |-> FALSE, tokens |-> <<>>])
    IN IF st.state \in Quotes
       THEN [ok |-> FALSE, error |-> "No closing quotation", tokens |-> <<>>]
       ELSE IF st.state \in Escape
       THEN [ok |-> FALSE, error |-> "No escaped character", tokens |-> <<>>]
       ELSE [ok |-> TRUE, error |-> "",
             tokens |-> Emit(st.tokens, st.token, st.quoted)]

(***************************************************************************)
(* ParsedCommand and CommandParser.parse.                                  *)
(***************************************************************************)
IsFlagToken(t) == StartsWith(t, <<"-">>)

NoCommand == [raw |-> <<>>, tokens |-> <<>>, command |-> <<>>,
              args |-> <<>>, flags |-> <<>>]

\* the partition gone wrong: args keeps every token after the first
MutMkParsedArgsKeepFlags(raw, tokens) ==
    [raw |-> raw,
     tokens |-> tokens,
     command |-> tokens[1],
     args |-> Tail(tokens),
     flags |-> SelectSeq(Tail(tokens), LAMBDA t : IsFlagToken(t))]

\* the ParsedCommand built from the raw text and its tokens
MkParsed(raw, tokens) ==
    [raw |-> raw,
     tokens |-> tokens,
     command |-> tokens[1],
     args |-> SelectSeq(Tail(tokens), LAMBDA t : ~IsFlagToken(t)),
     flags |-> SelectSeq(Tail(tokens), LAMBDA t : IsFlagToken(t))]

\* parse gone wrong: a text that cannot be tokenized becomes one token
MutParseKeepsUntokenized(raw) ==
    IF raw = <<>> \/ Strip(raw) = <<>>
    THEN [ok |-> FALSE, error |-> "Command cannot be empty", cmd |-> NoCommand]
    ELSE LET r == ShlexSplit(raw) IN
         IF ~r.ok
         THEN [ok |-> TRUE, error |-> "", cmd |-> MkParsed(raw, <<raw>>)]
         ELSE [ok |-> TRUE, error |-> "", cmd |-> MkParsed(raw, r.tokens)]

\* CommandParser.parse: ok = FALSE stands for the ValueError it raises
Parse(raw) ==
    IF raw = <<>> \/ Strip(raw) = <<>>
    THEN [ok |-> FALSE, error |-> "Command cannot be empty", cmd |-> NoCommand]
    ELSE LET r == ShlexSplit(raw) IN
         IF ~r.ok
         THEN [ok |-> FALSE, error |-> "Invalid command syntax",
               cmd |-> NoCommand]
         ELSE IF r.tokens = <<>>
         THEN [ok |-> FALSE, error |-> "Command produced no tokens",
               cmd |-> NoCommand]
         ELSE [ok |-> TRUE, error |-> "", cmd |-> MkParsed(raw, r.tokens)]

\* ParsedCommand.has_flag
HasFlag(cmd, flag) ==
    \/ InList(flag, cmd.flags)
    \/ \E i \in 1..Len(cmd.flags) : StartsWith(cmd.flags[i], flag)
    \/ /\ StartsWith(flag, <<"-">>)
       /\ ~StartsWith(flag, <<"-", "-">>)
       /\ Len(flag) = 2
       /\ \E i \in 1..Len(cmd.flags) :
             LET f == cmd.flags[i] IN
             /\ StartsWith(f, <<"-">>)
             /\ ~StartsWith(f, <<"-", "-">>)
             /\ Len(f) > 1
             /\ Contains(SubSeq(f, 2, Len(f)), <<flag[2]>>)

\* ParsedCommand.has_any_flag
HasAnyFlag(cmd, flags) == \E i \in 1..Len(flags) : HasFlag(cmd, flags[i])

(***************************************************************************)
(* DangerLevel and its comparison operators.                               *)
(***************************************************************************)
LevelOrder == <<"SAFE", "LOW", "MEDIUM", "HIGH", "CRITICAL">>

DangerLevels == {LevelOrder[i] : i \in 1..Len(LevelOrder)}

\* order.index(level)
OrderIndex(level) == CHOOSE i \in 1..Len(LevelOrder) : LevelOrder[i] = level

\* DangerLevel.__lt__ comparing the members' values ("critical" < "high" <
\* "low" < "medium" < "safe") instead of their positions in the order list
MutLevelLtByValue(a, b) ==
    LET byValue == <<"CRITICAL", "HIGH", "LOW", "MEDIUM", "SAFE">>
        at(l) == CHOOSE i \in 1..Len(byValue) : byValue[i] = l
    IN at(a) < at(b)

\* DangerLevel.__lt__
LevelLt(a, b) == OrderIndex(a) < OrderIndex(b)

\* DangerLevel.__le__
LevelLe(a, b) == a = b \/ LevelLt(a, b)

\* DangerLevel.__gt__
LevelGt(a, b) == ~LevelLe(a, b)

\* DangerLevel.__ge__
LevelGe(a, b) == ~LevelLt(a, b)

\* DangerLevel.requires_confirmation
RequiresConfirmation(level) == level \in {"HIGH", "CRITICAL"}

(***************************************************************************)
(* Flag and path tables of utils/constants.py.                             *)
(***************************************************************************)
RECURSIVE_FLAGS == <<(<<"-", "r">>), <<"-", "R">>,
                     <<"-", "-", "r", "e", "c", "u", "r", "s", "i", "v", "e">> >>
FORCE_FLAGS == <<(<<"-", "f">>), <<"-", "F">>, <<"-", "-", "f", "o", "r", "c", "e">> >>
INTERACTIVE_FLAGS == <<(<<"-", "i">>), <<"-", "I">>,
    <<"-", "-", "i", "n", "t", "e", "r", "a", "c", "t", "i", "v", "e">> >>
DANGEROUS_PATHS == <<(<<"/">>), <<"/", "b", "i", "n">>, <<"/", "b", "o", "o", "t">>,
    <<"/", "d", "e", "v">>, <<"/", "e", "t", "c">>, <<"/", "l", "i", "b">>,
    <<"/", "p", "r", "o", "c">>, <<"/", "r", "o", "o", "t">>,
    <<"/", "s", "b", "i", "n">>, <<"/", "s", "y", "s">>, <<"/", "u", "s", "r">>,
    <<"/", "v", "a", "r">> >>

\* filesystem._path_is_dangerous
PathIsDangerous(path) ==
    \E i \in 1..Len(DANGEROUS_PATHS) :
        LET dangerous == DANGEROUS_PATHS[i] IN
        IF dangerous = <<"/">>
        THEN path = <<"/">> \/ StartsWith(path, <<"/", "*">>)
        ELSE path = dangerous \/ StartsWith(path, dangerous \o <<"/">>)

\* any(_path_is_dangerous(path) for path in targets)
AnyDangerousPath(targets) ==
    \E i \in 1..Len(targets) : PathIsDangerous(targets[i])

\* any("*" in arg for arg in args)
AnyWildcard(args) == \E i \in 1..Len(args) : Contains(args[i], <<"*">>)

(***************************************************************************)
(* RuleMatch.  A message is <<text, parameters>>: the text of the literal  *)
(* or format string and the values formatted into it.  An optional value   *)
(* is <<>> for None and <<v>> for v.                                       *)
(***************************************************************************)
None == <<>>
Some(v) == <<v>>
Msg(text) == <<text, <<>> >>

\* RuleMatch(...): the dataclass constructor
RuleMatch(name, level, message, suggestion, alternative) ==
    [rule_name |-> name, danger_level |-> level, message |-> message,
     suggestion |-> suggestion, safe_alternative |-> alternative]

\* RuleMatch.__post_init__ accepting an empty message
MutPostInitAcceptsEmptyMessage(m) ==
    IF m.rule_name = "" THEN Some("rule_name cannot be empty") ELSE None

\* RuleMatch.__post_init__: the message of the ValueError raised, or None
PostInit(m) ==
    IF m.rule_name = "" THEN Some("rule_name cannot be empty")
    ELSE IF m.message = Msg("") THEN Some("message cannot be empty")
    ELSE None

(***************************************************************************)
(* Filesystem rules (rules/filesystem.py).                                 *)
(***************************************************************************)
\* RmRule._calculate_danger rating a dangerous path HIGH whether or not an
\* interactive flag is present
MutRmCalculateDangerIgnoresInteractive(cmd) ==
    LET has_recursive == HasAnyFlag(cmd, RECURSIVE_FLAGS)
        has_force == HasAnyFlag(cmd, FORCE_FLAGS)
        has_dangerous_path == AnyDangerousPath(cmd.args)
        has_wildcard == AnyWildcard(cmd.args)
    IN IF has_recursive /\ has_force /\ has_dangerous_path THEN "CRITICAL"
       ELSE IF has_recursive /\ has_force /\ has_wildcard THEN "CRITICAL"
       ELSE IF has_recursive /\ has_force THEN "HIGH"
       ELSE IF has_dangerous_path THEN "HIGH"
       ELSE IF has_recursive \/ has_force THEN "MEDIUM"
       ELSE "LOW"

\* RmRule._calculate_danger
RmCalculateDanger(cmd) ==
    LET has_recursive == HasAnyFlag(cmd, RECURSIVE_FLAGS)
        has_force == HasAnyFlag(cmd, FORCE_FLAGS)
        has_interactive == HasAnyFlag(cmd, INTERACTIVE_FLAGS)
        has_dangerous_path == AnyDangerousPath(cmd.args)
        has_wildcard == AnyWildcard(cmd.args)
    IN IF has_recursive /\ has_force /\ has_dangerous_path THEN "CRITICAL"
       ELSE IF has_recursive /\ has_force /\ has_wildcard THEN "CRITICAL"
       ELSE IF has_recursive /\ has_force THEN "HIGH"
       ELSE IF has_dangerous_path /\ ~has_interactive THEN "HIGH"
       ELSE IF has_recursive \/ has_force THEN "MEDIUM"
       ELSE "LOW"

\* RmRule._get_message
RmGetMessage(cmd) ==
    LET has_recursive == HasAnyFlag(cmd, RECURSIVE_FLAGS)
        has_force == HasAnyFlag(cmd, FORCE_FLAGS)
    IN IF has_recursive /\ has_force
       THEN Msg("This will permanently delete files recursively without prompting. This operation cannot be undone!")
       ELSE IF has_recursive
       THEN Msg("This will delete directories and all their contents recursively.")
       ELSE IF has_force
       THEN Msg("This will force delete files without prompting for confirmation.")
       ELSE IF AnyDangerousPath(cmd.args)
       THEN Msg("This targets system-critical directories. Deletion could break your system!")
       ELSE Msg("This will permanently delete files.")

\* RmRule._get_suggestion
RmGetSuggestion(cmd) ==
    IF ~HasAnyFlag(cmd, INTERACTIVE_FLAGS)
    THEN Some("Consider using -i or --interactive flag to confirm each deletion.")
    ELSE None

\* f"{prefix} {flags} {args}".strip() with flags and args joined by spaces
WithInserted(prefix, cmd) ==
    Strip(prefix \o <<" ">> \o Join(cmd.flags) \o <<" ">> \o Join(cmd.args))

\* RmRule._get_safe_alternative
RmGetSafeAlternative(cmd) ==
    IF ~HasAnyFlag(cmd, INTERACTIVE_FLAGS)
    THEN Some(WithInserted(<<"r", "m", " ", "-", "i">>, cmd))
    ELSE None

\* RmRule.matches
RmMatches(cmd) == cmd.command = <<"r", "m">>

\* RmRule.analyze
RmAnalyze(cmd) ==
    RuleMatch("rm_command", RmCalculateDanger(cmd), RmGetMessage(cmd),
              RmGetSuggestion(cmd), RmGetSafeAlternative(cmd))

\* MvRule.matches
MvMatches(cmd) == cmd.command = <<"m", "v">>

\* MvRule.analyze
MvAnalyze(cmd) ==
    LET has_force == HasAnyFlag(cmd, FORCE_FLAGS)
        has_interactive == HasAnyFlag(cmd, INTERACTIVE_FLAGS)
        has_dangerous_path == AnyDangerousPath(cmd.args)
        offer == ~has_interactive /\ (has_force \/ has_dangerous_path)
        suggestion == IF offer
                      THEN Some("Consider using -i flag to confirm overwrites.")
                      ELSE None
        safe_alt == IF offer THEN Some(WithInserted(<<"m", "v", " ", "-", "i">>, cmd)) ELSE None
    IN IF has_force /\ has_dangerous_path
       THEN RuleMatch("mv_command", "HIGH",
                Msg("Moving system-critical files with force flag could break your system!"),
                suggestion, safe_alt)
       ELSE IF has_force
       THEN RuleMatch("mv_command", "MEDIUM",
                Msg("This will overwrite existing files without prompting."),
                suggestion, safe_alt)
       ELSE IF has_dangerous_path
       THEN RuleMatch("mv_command", "MEDIUM",
                Msg("Moving system-critical files could cause issues."),
                suggestion, safe_alt)
       ELSE RuleMatch("mv_command", "LOW", Msg("This will move or rename files."),
                suggestion, safe_alt)

\* CpRule.matches
CpMatches(cmd) == cmd.command = <<"c", "p">>

\* CpRule.analyze
CpAnalyze(cmd) ==
    LET has_recursive == HasAnyFlag(cmd, RECURSIVE_FLAGS)
        has_force == HasAnyFlag(cmd, FORCE_FLAGS)
    IN IF has_recursive /\ has_force
       THEN RuleMatch("cp_command", "MEDIUM",
                Msg("This will recursively copy and overwrite files without prompting."),
                Some("Consider using -i flag to confirm overwrites."), None)
       ELSE IF has_force
       THEN RuleMatch("cp_command", "LOW",
                Msg("This will overwrite existing files without prompting."),
                Some("Consider using -i flag to confirm overwrites."), None)
       ELSE IF has_recursive
       THEN RuleMatch("cp_command", "LOW",
                Msg("This will recursively copy directories."), None, None)
       ELSE RuleMatch("cp_command", "SAFE", Msg("Standard file copy operation."),
                None, None)

\* ChmodRule: dangerous_perms
ChmodDangerousPerms == <<<<"7", "7", "7">>, <<"6", "6", "6">>, <<"a", "+", "r", "w", "x">>, <<"u",
        "g", "o", "+", "r", "w", "x">>>>

\* ChmodRule.matches
ChmodMatches(cmd) == cmd.command = <<"c", "h", "m", "o", "d">>

\* ChmodRule.analyze
ChmodAnalyze(cmd) ==
    LET has_recursive == HasAnyFlag(cmd, RECURSIVE_FLAGS)
        has_dangerous_perm ==
            \E i \in 1..Len(ChmodDangerousPerms) :
                InList(ChmodDangerousPerms[i], cmd.args)
        targets == SelectSeq(cmd.args,
                       LAMBDA a : ~StartsWith(a, <<"-">>)
                                  /\ ~InList(a, ChmodDangerousPerms))
        has_dangerous_path == AnyDangerousPath(targets)
        suggestion ==
            IF has_dangerous_perm
            THEN Some("Avoid 777 or 666 permissions. Use minimal necessary permissions (e.g., 755, 644).")
            ELSE None
    IN IF has_dangerous_perm /\ has_recursive /\ has_dangerous_path
       THEN RuleMatch("chmod_command", "CRITICAL",
                Msg("Setting world-writable permissions recursively on system paths is extremely dangerous!"),
                suggestion, None)
       ELSE IF has_dangerous_perm /\ has_recursive
       THEN RuleMatch("chmod_command", "HIGH",
                Msg("Setting world-writable permissions recursively can create security vulnerabilities."),
                suggestion, None)
       ELSE IF has_dangerous_perm
       THEN RuleMatch("chmod_command", "MEDIUM",
                Msg("Setting world-writable permissions can create security vulnerabilities."),
                suggestion, None)
       ELSE IF has_recursive /\ has_dangerous_path
       THEN RuleMatch("chmod_command", "HIGH",
                Msg("Recursively changing permissions on system paths could break your system."),
                suggestion, None)
       ELSE RuleMatch("chmod_command", "LOW",
                Msg("This will change file permissions."), suggestion, None)

\* ChownRule.matches
ChownMatches(cmd) == cmd.command = <<"c", "h", "o", "w", "n">>

\* ChownRule.analyze
ChownAnalyze(cmd) ==
    LET has_recursive == HasAnyFlag(cmd, RECURSIVE_FLAGS)
        has_dangerous_path == AnyDangerousPath(cmd.args)
    IN IF has_recursive /\ has_dangerous_path
       THEN RuleMatch("chown_command", "CRITICAL",
                Msg("Recursively changing ownership on system paths can break your system!"),
                None, None)
       ELSE IF has_dangerous_path
       THEN RuleMatch("chown_command", "HIGH",
                Msg("Changing ownership of system files can cause serious issues."),
                None, None)
       ELSE IF has_recursive
       THEN RuleMatch("chown_command", "MEDIUM",
                Msg("Recursively changing ownership affects all files in the directory tree."),
                None, None)
       ELSE RuleMatch("chown_command", "LOW",
                Msg("This will change file ownership."), None, None)

(***************************************************************************)
(* System rules (rules/system.py).                                         *)
(***************************************************************************)
\* SudoRule: dangerous_commands
SudoDangerousCommands == <<<<"r", "m">>, <<"d", "d">>, <<"m", "k", "f", "s">>, <<"f", "d", "i",
        "s", "k">>, <<"p", "a", "r", "t", "e", "d">>, <<"c", "h", "m", "o", "d">>, <<"c", "h",
                "o", "w", "n">>>>

\* SudoRule: safe_dev_paths
SudoSafeDevPaths == <<<<"/", "d", "e", "v", "/", "z", "e", "r", "o">>, <<"/", "d", "e", "v", "/",
        "n", "u", "l", "l">>, <<"/", "d", "e", "v", "/", "r", "a", "n", "d", "o", "m">>, <<"/",
                "d", "e", "v", "/", "u", "r", "a", "n", "d", "o", "m">>>>

\* SudoRule.matches
SudoMatches(cmd) == cmd.command = <<"s", "u", "d", "o">>

\* SudoRule.analyze: has_system_path
SudoHasSystemPath(cmd) ==
    \E i \in 1..Len(cmd.args) :
        LET arg == cmd.args[i] IN
        /\ \E j \in 1..Len(DANGEROUS_PATHS) : Contains(arg, DANGEROUS_PATHS[j])
        /\ ~\E j \in 1..Len(SudoSafeDevPaths) : Contains(arg, SudoSafeDevPaths[j])

\* SudoRule.analyze
SudoAnalyze(cmd) ==
    LET actual_cmd == IF cmd.args # <<>> THEN cmd.args[1] ELSE <<>>
        is_dangerous_cmd == InList(actual_cmd, SudoDangerousCommands)
        has_system_path == SudoHasSystemPath(cmd)
    IN IF is_dangerous_cmd /\ has_system_path
       THEN RuleMatch("sudo_command", "CRITICAL",
                <<"Running '{actual_cmd}' with sudo on system paths can destroy your system! Root privileges allow unrestricted access to critical files.",
                  <<actual_cmd>> >>,
                Some("Double-check the command and paths. Consider if sudo is really necessary."),
                None)
       ELSE IF is_dangerous_cmd
       THEN RuleMatch("sudo_command", "HIGH",
                <<"Running '{actual_cmd}' with sudo is dangerous. Root privileges can cause irreversible damage.",
                  <<actual_cmd>> >>,
                Some("Verify the command is correct and necessary."), None)
       ELSE IF has_system_path
       THEN RuleMatch("sudo_command", "HIGH",
                Msg("Using sudo to modify system paths can break your system. Be very careful with root access."),
                Some("Make sure you know what you're doing."), None)
       ELSE RuleMatch("sudo_command", "MEDIUM",
                Msg("Running commands with sudo gives them root privileges. Only use sudo when necessary."),
                Some("Check if the command really needs root access."), None)

\* DdRule: dangerous_of
DdDangerousOf == <<<<"/", "d", "e", "v", "/", "s", "d", "a">>, <<"/", "d", "e", "v", "/", "s",
        "d", "b">>, <<"/", "d", "e", "v", "/", "n", "v", "m", "e">>, <<"/", "d", "e", "v", "/",
                "d", "i", "s", "k">>>>

\* DdRule.matches
DdMatches(cmd) == cmd.command = <<"d", "d">>

\* DdRule.analyze: the text after "of=" of the first argument starting with it
DdOfArg(cmd) ==
    LET hits == SelectSeq(cmd.args, LAMBDA a : StartsWith(a, <<"o", "f", "=">>))
    IN IF hits = <<>> THEN None ELSE Some(SubSeq(hits[1], 4, Len(hits[1])))

\* DdRule.analyze
DdAnalyze(cmd) ==
    LET of_arg == DdOfArg(cmd) IN
    IF of_arg # None /\ of_arg[1] # <<>>
    THEN IF \E i \in 1..Len(DdDangerousOf) : StartsWith(of_arg[1], DdDangerousOf[i])
         THEN RuleMatch("dd_command", "CRITICAL",
                  Msg("Writing to a disk device with dd will DESTROY all data on that disk! This is one of the most dangerous commands in Linux."),
                  Some("Triple-check the device name. Use 'lsblk' to verify. Make sure you have backups of any important data."),
                  Some(<<"l", "s", "b", "l", "k">>))
         ELSE RuleMatch("dd_command", "MEDIUM",
                  Msg("dd will overwrite the specified file or device."),
                  Some("Make sure the output path is correct."), None)
    ELSE RuleMatch("dd_command", "LOW",
             Msg("dd command detected. Make sure input/output parameters are correct."),
             None, None)

\* KillRule: dangerous_processes
KillDangerousProcesses == <<<<"i", "n", "i", "t">>, <<"s", "y", "s", "t", "e", "m", "d">>, <<"l",
        "a", "u", "n", "c", "h", "d">>, <<"s", "s", "h">>, <<"s", "s", "h", "d">>>>

\* KillRule.matches
KillMatches(cmd) == cmd.command \in {<<"k", "i", "l", "l">>, <<"k", "i", "l", "l", "a", "l", "l">>}

\* KillRule.analyze: command.raw with the SIGKILL flags removed
KillWithoutSigkill(cmd) ==
    Replace(Replace(Replace(cmd.raw, <<"-", "9">>, <<>>), <<"-", "K", "I", "L",
            "L">>, <<>>), <<"-", "S", "I", "G", "K", "I", "L", "L">>, <<>>)

\* KillRule.analyze
KillAnalyze(cmd) ==
    LET has_9 == \/ InList(<<"-", "9">>, cmd.flags)
                 \/ InList(<<"-", "K", "I", "L", "L">>, cmd.flags)
                 \/ InList(<<"-", "S", "I", "G", "K", "I", "L", "L">>, cmd.flags)
        is_killall == cmd.command = <<"k", "i", "l", "l", "a", "l", "l">>
        targets == IF is_killall THEN cmd.args ELSE <<>>
        has_dangerous_target ==
            \E i \in 1..Len(targets) : InList(targets[i], KillDangerousProcesses)
    IN IF has_9 /\ has_dangerous_target
       THEN RuleMatch("kill_command", "CRITICAL",
                <<"Force killing critical system processes like {targets} can crash your system! This will immediately terminate the process without cleanup.",
                  targets>>,
                Some("Don't kill critical system processes. If you must, try without -9 first."),
                Some(KillWithoutSigkill(cmd)))
       ELSE IF has_9 /\ is_killall
       THEN RuleMatch("kill_command", "HIGH",
                Msg("killall -9 will force kill ALL processes with that name immediately. They won't have a chance to clean up or save state."),
                Some("Try without -9 first to allow graceful termination."),
                Some(KillWithoutSigkill(cmd)))
       ELSE IF has_9
       THEN RuleMatch("kill_command", "MEDIUM",
                Msg("kill -9 sends SIGKILL which cannot be caught or ignored. The process will be terminated immediately without cleanup."),
                Some("Try regular kill first (SIGTERM) to allow graceful shutdown."),
                Some(KillWithoutSigkill(cmd)))
       ELSE IF is_killall
       THEN RuleMatch("kill_command", "MEDIUM",
                Msg("killall will terminate ALL processes with the specified name."),
                Some("Use 'kill' with specific PIDs for more control."), None)
       ELSE RuleMatch("kill_command", "LOW",
                Msg("This will send SIGTERM to the process, allowing graceful shutdown."),
                None, None)

\* ShutdownRule.matches
ShutdownMatches(cmd) ==
    cmd.command \in {<<"s", "h", "u", "t", "d", "o", "w", "n">>, <<"r", "e", "b", "o", "o",
            "t">>, <<"h", "a", "l", "t">>, <<"p", "o", "w", "e", "r", "o", "f", "f">>}

\* ShutdownRule.analyze
ShutdownAnalyze(cmd) ==
    LET is_immediate == \/ InList(<<"n", "o", "w">>, cmd.args)
                        \/ InList(<<"-", "h">>, cmd.flags)
                        \/ cmd.command \in {<<"r", "e", "b", "o", "o", "t">>, <<"h", "a", "l",
                                "t">>, <<"p", "o", "w", "e", "r", "o", "f", "f">>}
    IN IF is_immediate
       THEN RuleMatch("shutdown_command", "HIGH",
                Msg("This will immediately shutdown/reboot the system. All running processes will be terminated, work may be lost."),
                Some("Make sure all work is saved and other users are notified. Consider scheduling shutdown with a delay (e.g., 'shutdown +5')."),
                IF cmd.command = <<"s", "h", "u", "t", "d", "o", "w", "n">> THEN Some(<<"s", "h",
                        "u", "t", "d", "o", "w", "n", " ", "+", "5">>) ELSE None)
       ELSE RuleMatch("shutdown_command", "MEDIUM",
                Msg("This will schedule a system shutdown/reboot."),
                Some("Notify other users if this is a shared system."), None)

\* MkfsRule.matches
MkfsMatches(cmd) ==
    \/ StartsWith(cmd.command, <<"m", "k", "f", "s">>)
    \/ cmd.command \in {<<"m", "k", "f", "s", ".", "e", "x", "t", "4">>, <<"m", "k", "f", "s",
            ".", "e", "x", "t", "3">>, <<"m", "k", "f", "s", ".", "n", "t", "f", "s">>, <<"m",
                    "k", "f", "s", ".", "v", "f", "a", "t">>}

\* MkfsRule.analyze
MkfsAnalyze(cmd) ==
    RuleMatch("mkfs_command", "CRITICAL",
        Msg("This will FORMAT the specified device, DESTROYING ALL DATA on it! Formatting cannot be undone and all files will be permanently lost."),
        Some("Triple-check you have the correct device. Use 'lsblk' or 'fdisk -l' to verify. Make absolutely sure you have backups of any important data."),
        Some(<<"l", "s", "b", "l", "k">>))

(***************************************************************************)
(* Git rules (rules/git.py).                                               *)
(***************************************************************************)
\* GitResetRule.matches
GitResetMatches(cmd) == cmd.command = <<"g", "i", "t">> /\ InList(<<"r", "e", "s", "e",
        "t">>, cmd.args)

\* GitResetRule.analyze
GitResetAnalyze(cmd) ==
    LET has_hard == InList(<<"-", "-", "h", "a", "r", "d">>, cmd.flags)
        has_soft == InList(<<"-", "-", "s", "o", "f", "t">>, cmd.flags)
        has_mixed == InList(<<"-", "-", "m", "i", "x", "e",
                "d">>, cmd.flags) \/ (~has_hard /\ ~has_soft)
        has_head_ref ==
            \E i \in 1..Len(cmd.args) :
                Contains(cmd.args[i], <<"H", "E", "A", "D", "~">>) \/ Contains(cmd.args[i], <<"H",
                        "E", "A", "D", "^">>)
    IN IF has_hard
       THEN RuleMatch("git_reset",
                IF has_head_ref THEN "CRITICAL" ELSE "HIGH",
                IF has_head_ref
                THEN Msg("This will permanently discard all uncommitted changes and reset to a previous commit. All work will be lost!")
                ELSE Msg("This will permanently discard all uncommitted changes. Staged and unstaged changes will be lost!"),
                Some("Use 'git stash' to save your changes first, or 'git reset --soft' to keep changes."),
                Some(Replace(cmd.raw, <<"-", "-", "h", "a", "r", "d">>, <<"-", "-", "s", "o", "f",
                        "t">>)))
       ELSE IF has_mixed
       THEN RuleMatch("git_reset", "MEDIUM",
                Msg("This will unstage changes but keep them in your working directory."),
                Some("Use 'git reset --soft' if you want to keep changes staged."),
                Some(Replace(cmd.raw, <<"r", "e", "s", "e", "t">>, <<"r", "e", "s", "e", "t", " ",
                        "-", "-", "s", "o", "f", "t">>)))
       ELSE RuleMatch("git_reset", "LOW",
                Msg("This will move HEAD but keep all changes staged."), None, None)

\* GitPushForceRule.matches testing the force flags with has_flag, which also
\* accepts -f inside a combined short flag
MutGitPushForceMatchesCombined(cmd) ==
    /\ cmd.command = <<"g", "i", "t">>
    /\ InList(<<"p", "u", "s", "h">>, cmd.args)
    /\ \/ HasFlag(cmd, <<"-", "-", "f", "o", "r", "c", "e">>)
       \/ HasFlag(cmd, <<"-", "f">>)

\* GitPushForceRule.matches
GitPushForceMatches(cmd) ==
    /\ cmd.command = <<"g", "i", "t">>
    /\ InList(<<"p", "u", "s", "h">>, cmd.args)
    /\ \/ InList(<<"-", "-", "f", "o", "r", "c", "e">>, cmd.flags)
       \/ InList(<<"-", "f">>, cmd.flags)
       \/ InList(<<"-", "-", "f", "o", "r", "c", "e", "-", "w", "i", "t", "h", "-", "l", "e", "a",
               "s", "e">>, cmd.flags)

\* GitPushForceRule.analyze: the protected branch names
GitMainBranches == <<<<"m", "a", "i", "n">>, <<"m", "a", "s", "t", "e", "r">>, <<"o", "r", "i",
        "g", "i", "n", "/", "m", "a", "i", "n">>, <<"o", "r", "i", "g", "i", "n", "/", "m", "a",
                "s", "t", "e", "r">>>>

\* GitPushForceRule.analyze: command.raw with the force flags rewritten
GitPushWithLease(cmd) ==
    Replace(Replace(cmd.raw, <<"-", "-", "f", "o", "r", "c", "e">>, <<"-", "-", "f", "o", "r",
            "c", "e", "-", "w", "i", "t", "h", "-", "l", "e", "a", "s", "e">>), <<"-", "f">>,
            <<"-", "-", "f", "o", "r", "c", "e", "-", "w", "i", "t", "h", "-", "l", "e", "a", "s",
                    "e">>)

\* GitPushForceRule.analyze
GitPushForceAnalyze(cmd) ==
    LET has_force_with_lease == InList(<<"-", "-", "f", "o", "r", "c", "e", "-", "w", "i", "t",
            "h", "-", "l", "e", "a", "s", "e">>, cmd.flags)
        is_main_branch ==
            \E i \in 1..Len(cmd.args) : InList(cmd.args[i], GitMainBranches)
    IN IF is_main_branch /\ ~has_force_with_lease
       THEN RuleMatch("git_push_force", "CRITICAL",
                Msg("Force pushing to main/master branch will rewrite history and could break the repository for all team members!"),
                Some("Use --force-with-lease instead of --force for safer forced pushes. Or better yet, avoid force pushing to main branches."),
                Some(GitPushWithLease(cmd)))
       ELSE IF has_force_with_lease
       THEN RuleMatch("git_push_force", "MEDIUM",
                Msg("Force pushing will rewrite history. --force-with-lease provides some safety by checking remote hasn't changed."),
                Some("Make sure no one else is working on this branch."), None)
       ELSE RuleMatch("git_push_force", "HIGH",
                Msg("Force pushing will rewrite remote history and could lose commits from other team members."),
                Some("Use --force-with-lease instead for safer forced pushes."),
                Some(GitPushWithLease(cmd)))

RECURSIVE Concat(_)
\* "".join(xs)
Concat(xs) == IF xs = <<>> THEN <<>> ELSE xs[1] \o Concat(Tail(xs))

\* GitCleanRule.matches
GitCleanMatches(cmd) == cmd.command = <<"g", "i", "t">> /\ InList(<<"c", "l", "e", "a",
        "n">>, cmd.args)

\* GitCleanRule.analyze
GitCleanAnalyze(cmd) ==
    LET combined_flags ==
            Concat(SelectSeq(cmd.flags,
                       LAMBDA f : StartsWith(f, <<"-">>)
                                  /\ ~StartsWith(f, <<"-", "-">>)))
        has_force == \/ InList(<<"-", "f">>, cmd.flags)
                     \/ InList(<<"-", "-", "f", "o", "r", "c", "e">>, cmd.flags)
                     \/ Contains(combined_flags, <<"f">>)
        has_d == InList(<<"-", "d">>, cmd.flags) \/ Contains(combined_flags, <<"d">>)
        has_x == \/ InList(<<"-", "x">>, cmd.flags)
                 \/ InList(<<"-", "X">>, cmd.flags)
                 \/ Contains(combined_flags, <<"x">>)
                 \/ Contains(combined_flags, <<"X">>)
    IN IF has_force /\ has_d /\ has_x
       THEN RuleMatch("git_clean", "CRITICAL",
                Msg("This will permanently delete ALL untracked files and directories, including ignored files. This cannot be undone!"),
                Some("Run 'git clean -fdxn' first to see what would be deleted."),
                Some(<<"g", "i", "t", " ", "c", "l", "e", "a", "n", " ", "-", "f", "d", "x", "n">>))
       ELSE IF has_force /\ has_d
       THEN RuleMatch("git_clean", "HIGH",
                Msg("This will permanently delete all untracked files and directories. This cannot be undone!"),
                Some("Run 'git clean -fdn' first to preview what will be deleted."),
                Some(<<"g", "i", "t", " ", "c", "l", "e", "a", "n", " ", "-", "f", "d", "n">>))
       ELSE IF has_force
       THEN RuleMatch("git_clean", "MEDIUM",
                Msg("This will permanently delete untracked files."),
                Some("Run 'git clean -fn' first to see what would be deleted."),
                Some(<<"g", "i", "t", " ", "c", "l", "e", "a", "n", " ", "-", "f", "n">>))
       ELSE RuleMatch("git_clean", "LOW",
                Msg("Use -f flag to actually delete files (dry run mode)."),
                None, None)

\* GitBranchDeleteRule.matches
GitBranchDeleteMatches(cmd) ==
    /\ cmd.command = <<"g", "i", "t">>
    /\ InList(<<"b", "r", "a", "n", "c", "h">>, cmd.args)
    /\ \/ InList(<<"-", "D">>, cmd.flags)
       \/ Contains(Join(cmd.flags), <<"-", "-", "d", "e", "l", "e", "t", "e", " ", "-", "-", "f",
               "o", "r", "c", "e">>)

\* GitBranchDeleteRule.analyze
GitBranchDeleteAnalyze(cmd) ==
    RuleMatch("git_branch_delete", "HIGH",
        Msg("Force deleting a branch will remove it even if it contains unmerged changes. This could result in lost commits!"),
        Some("Use 'git branch -d' (lowercase) to safely delete only merged branches."),
        Some(Replace(cmd.raw, <<"-", "D">>, <<"-", "d">>)))

(***************************************************************************)
(* Docker rules (rules/docker.py).                                         *)
(***************************************************************************)
\* DockerSystemPruneRule.matches
DockerSystemPruneMatches(cmd) ==
    /\ cmd.command = <<"d", "o", "c", "k", "e", "r">>
    /\ InList(<<"s", "y", "s", "t", "e", "m">>, cmd.args)
    /\ InList(<<"p", "r", "u", "n", "e">>, cmd.args)

\* DockerSystemPruneRule.analyze: the match without the force flag
DockerSystemPruneBase(cmd) ==
    LET has_all == HasAnyFlag(cmd, <<<<"-", "a">>, <<"-", "-", "a", "l", "l">>>>)
        has_volumes == InList(<<"-", "-", "v", "o", "l", "u", "m", "e", "s">>, cmd.flags)
    IN IF has_all /\ has_volumes
       THEN RuleMatch("docker_system_prune", "CRITICAL",
                Msg("This will remove ALL unused containers, networks, images (both dangling and unused), AND volumes. This includes data volumes which could contain important data!"),
                Some("Run without --volumes first, then manually clean volumes if needed."),
                Some(Replace(Replace(cmd.raw, <<"-", "-", "v", "o", "l", "u", "m", "e",
                        "s">>, <<>>), <<"-", "-", "f", "o", "r", "c", "e">>, <<>>)))
       ELSE IF has_all
       THEN RuleMatch("docker_system_prune", "HIGH",
                Msg("This will remove ALL unused containers, networks, and images (including non-dangling images). You may lose important images!"),
                Some("Run without --all to only remove dangling images."),
                Some(Replace(Replace(cmd.raw, <<"-", "-", "a", "l", "l">>, <<>>), <<"-", "-", "f",
                        "o", "r", "c", "e">>, <<>>)))
       ELSE IF has_volumes
       THEN RuleMatch("docker_system_prune", "HIGH",
                Msg("This will remove unused volumes which may contain important data. Volume data cannot be recovered!"),
                Some("List volumes first with 'docker volume ls' and remove specific ones."),
                Some(<<"d", "o", "c", "k", "e", "r", " ", "v", "o", "l", "u", "m", "e", " ", "l",
                        "s">>))
       ELSE RuleMatch("docker_system_prune", "MEDIUM",
                Msg("This will remove unused containers, networks, and dangling images. Active resources won't be affected."),
                Some("Review what will be removed with 'docker system df' first."),
                None)

\* DockerSystemPruneRule.analyze
DockerSystemPruneAnalyze(cmd) ==
    LET base == DockerSystemPruneBase(cmd)
        has_force == HasAnyFlag(cmd, <<<<"-", "f">>, <<"-", "-", "f", "o", "r", "c", "e">>>>)
    IN IF has_force
       THEN RuleMatch("docker_system_prune",
                IF base.danger_level = "HIGH" THEN "CRITICAL" ELSE "HIGH",
                <<base.message[1] \o " The --force flag skips the confirmation prompt, making accidental data loss more likely.",
                  base.message[2]>>,
                Some("Remove --force to review what will be deleted before proceeding."),
                Some(Replace(cmd.raw, <<"-", "-", "f", "o", "r", "c", "e">>, <<>>)))
       ELSE base

\* DockerRmRule.matches
DockerRmMatches(cmd) == cmd.command = <<"d", "o", "c", "k", "e", "r">> /\ InList(<<"r",
        "m">>, cmd.args)

\* DockerRmRule.analyze
DockerRmAnalyze(cmd) ==
    LET short(f) == StartsWith(f, <<"-">>) /\ ~StartsWith(f, <<"-", "-">>)
        has_force ==
            \/ HasAnyFlag(cmd, <<<<"-", "f">>, <<"-", "-", "f", "o", "r", "c", "e">>>>)
            \/ \E i \in 1..Len(cmd.flags) :
                   short(cmd.flags[i]) /\ Contains(cmd.flags[i], <<"f">>)
        has_volumes ==
            \/ HasAnyFlag(cmd, <<<<"-", "v">>, <<"-", "-", "v", "o", "l", "u", "m", "e", "s">>>>)
            \/ \E i \in 1..Len(cmd.flags) :
                   short(cmd.flags[i]) /\ Contains(cmd.flags[i], <<"v">>)
        container_args == SelectSeq(cmd.args, LAMBDA a : a # <<"r", "m">>)
        is_multiple == Len(container_args) > 1 \/ AnyWildcard(container_args)
        stop == Some(<<"d", "o", "c", "k", "e", "r", " ", "s", "t", "o", "p",
                " ">> \o Join(container_args))
    IN IF has_force /\ has_volumes /\ is_multiple
       THEN RuleMatch("docker_rm", "CRITICAL",
                Msg("This will force remove multiple containers AND their associated volumes. Data in volumes will be permanently lost!"),
                Some("Remove force and volumes flags, stop containers first with 'docker stop'."),
                stop)
       ELSE IF has_force /\ is_multiple
       THEN RuleMatch("docker_rm", "HIGH",
                Msg("Force removing multiple containers will stop and remove them immediately. Running containers will be killed!"),
                Some("Stop containers gracefully first with 'docker stop'."), stop)
       ELSE IF has_volumes
       THEN RuleMatch("docker_rm", "HIGH",
                Msg("This will remove the container and its associated volumes. Data in volumes will be permanently lost!"),
                Some("Remove the -v/--volumes flag to preserve volume data."),
                Some(Replace(Replace(cmd.raw, <<"-", "v">>, <<>>), <<"-", "-", "v", "o", "l", "u",
                        "m", "e", "s">>, <<>>)))
       ELSE IF has_force
       THEN RuleMatch("docker_rm", "MEDIUM",
                Msg("Force removing will stop and remove the container immediately."),
                Some("Stop the container first with 'docker stop' for graceful shutdown."),
                stop)
       ELSE RuleMatch("docker_rm", "LOW",
                Msg("This will remove stopped container(s)."), None, None)

\* DockerRmiRule.matches
DockerRmiMatches(cmd) == cmd.command = <<"d", "o", "c", "k", "e", "r">> /\ InList(<<"r", "m",
        "i">>, cmd.args)

\* DockerRmiRule.analyze
DockerRmiAnalyze(cmd) ==
    LET has_force == InList(<<"-", "f">>, cmd.flags) \/ InList(<<"-", "-", "f", "o", "r", "c",
            "e">>, cmd.flags)
        image_args == SelectSeq(cmd.args, LAMBDA a : a # <<"r", "m", "i">>)
        is_multiple == Len(image_args) > 1 \/ AnyWildcard(image_args)
        unforced == Some(Replace(Replace(cmd.raw, <<"-", "f">>, <<>>), <<"-", "-", "f", "o", "r",
                "c", "e">>, <<>>))
    IN IF has_force /\ is_multiple
       THEN RuleMatch("docker_rmi", "HIGH",
                Msg("Force removing multiple images will delete them even if containers are using them. This could break running applications!"),
                Some("Remove the -f/--force flag and handle used images manually."),
                unforced)
       ELSE IF has_force
       THEN RuleMatch("docker_rmi", "MEDIUM",
                Msg("Force removing will delete the image even if containers are using it. This could break running containers!"),
                Some("Remove the -f flag to see if image is in use."), unforced)
       ELSE IF is_multiple
       THEN RuleMatch("docker_rmi", "MEDIUM",
                Msg("This will remove multiple Docker images. Make sure they're not needed."),
                Some("Use 'docker images' to review images before removing."), None)
       ELSE RuleMatch("docker_rmi", "LOW", Msg("This will remove a Docker image."),
                None, None)

\* DockerVolumePruneRule.matches
DockerVolumePruneMatches(cmd) ==
    /\ cmd.command = <<"d", "o", "c", "k", "e", "r">>
    /\ InList(<<"v", "o", "l", "u", "m", "e">>, cmd.args)
    /\ InList(<<"p", "r", "u", "n", "e">>, cmd.args)

\* DockerVolumePruneRule.analyze
DockerVolumePruneAnalyze(cmd) ==
    LET has_force == InList(<<"-", "f">>, cmd.flags) \/ InList(<<"-", "-", "f", "o", "r", "c",
            "e">>, cmd.flags)
    IN IF has_force
       THEN RuleMatch("docker_volume_prune", "CRITICAL",
                Msg("This will permanently delete ALL unused Docker volumes and their data. Volume data cannot be recovered! This includes volumes that might be needed later. The --force flag skips the confirmation prompt, increasing the risk of accidental data loss."),
                Some("Remove --force so you can review what will be deleted first."),
                Some(Replace(Replace(cmd.raw, <<"-", "f">>, <<>>), <<"-", "-", "f", "o", "r", "c",
                        "e">>, <<>>)))
       ELSE RuleMatch("docker_volume_prune", "HIGH",
                Msg("This will permanently delete ALL unused Docker volumes and their data. Volume data cannot be recovered! This includes volumes that might be needed later."),
                Some("List volumes first with 'docker volume ls' and remove specific ones. Or back up important data before pruning."),
                Some(<<"d", "o", "c", "k", "e", "r", " ", "v", "o", "l", "u", "m", "e", " ", "l",
                        "s">>))

(***************************************************************************)
(* Rule objects.  A rule object is [class, rules]: its class and, for a    *)
(* CompositeRule, its sub-rules.  Besides the 18 rule classes of the       *)
(* package there are the rule classes of the test suite (DummyRule,        *)
(* AnotherRmRule), CompositeRule, and a value that is not a Rule at all.   *)
(***************************************************************************)
Obj(class) == [class |-> class, rules |-> <<>>]

\* CompositeRule(rules)
Composite(subrules) == [class |-> "CompositeRule", rules |-> subrules]

\* the string "not a rule" of test_register_non_rule_raises_error
NotARule == Obj("str")

\* isinstance(rule, Rule)
IsRule(obj) == obj.class # "str"

\* the classes _register_default_rules instantiates, in its order
DefaultRuleClasses ==
    <<"RmRule", "MvRule", "CpRule", "ChmodRule", "ChownRule",
      "GitResetRule", "GitPushForceRule", "GitCleanRule", "GitBranchDeleteRule",
      "DockerSystemPruneRule", "DockerRmRule", "DockerRmiRule",
      "DockerVolumePruneRule",
      "SudoRule", "DdRule", "KillRule", "ShutdownRule", "MkfsRule">>

\* rule.name: the class attribute of each rule class
RuleName(rule) ==
    CASE rule.class = "RmRule" -> "rm_command"
      [] rule.class = "MvRule" -> "mv_command"
      [] rule.class = "CpRule" -> "cp_command"
      [] rule.class = "ChmodRule" -> "chmod_command"
      [] rule.class = "ChownRule" -> "chown_command"
      [] rule.class = "GitResetRule" -> "git_reset"
      [] rule.class = "GitPushForceRule" -> "git_push_force"
      [] rule.class = "GitCleanRule" -> "git_clean"
      [] rule.class = "GitBranchDeleteRule" -> "git_branch_delete"
      [] rule.class = "DockerSystemPruneRule" -> "docker_system_prune"
      [] rule.class = "DockerRmRule" -> "docker_rm"
      [] rule.class = "DockerRmiRule" -> "docker_rmi"
      [] rule.class = "DockerVolumePruneRule" -> "docker_volume_prune"
      [] rule.class = "SudoRule" -> "sudo_command"
      [] rule.class = "DdRule" -> "dd_command"
      [] rule.class = "KillRule" -> "kill_command"
      [] rule.class = "ShutdownRule" -> "shutdown_command"
      [] rule.class = "MkfsRule" -> "mkfs_command"
      [] rule.class = "DummyRule" -> "dummy_rule"
      [] rule.class = "AnotherRmRule" -> "another_rm_rule"
      [] rule.class = "CompositeRule" -> "composite_rule"

\* max(levels): the first maximal element, compared with __gt__
RECURSIVE MaxLevelFrom(_, _, _)
MaxLevelFrom(levels, i, best) ==
    IF i > Len(levels) THEN best
    ELSE MaxLevelFrom(levels, i + 1,
             IF LevelGt(levels[i], best) THEN levels[i] ELSE best)

\* max(levels) gone wrong: the level of the last match, whatever the others
MutMaxLevelTakesLast(levels) == levels[Len(levels)]

MaxLevel(levels) == MaxLevelFrom(levels, 2, levels[1])

\* max(matches, key=lambda m: m.danger_level): the first maximal match
RECURSIVE MaxMatchFrom(_, _, _)
MaxMatchFrom(matches, i, best) ==
    IF i > Len(matches) THEN best
    ELSE MaxMatchFrom(matches, i + 1,
             IF LevelGt(matches[i].danger_level, best.danger_level)
             THEN matches[i] ELSE best)

\* max(matches) gone wrong: on ties the last maximal match, not the first
MutMaxMatchLastOnTies(matches) ==
    LET top == {i \in 1..Len(matches) :
                    \A j \in 1..Len(matches) :
                        ~LevelGt(matches[j].danger_level,
                                 matches[i].danger_level)}
    IN matches[CHOOSE i \in top : \A j \in top : j <= i]

MaxMatch(matches) == MaxMatchFrom(matches, 2, matches[1])

RECURSIVE RuleMatches(_, _)
\* rule.matches(command)
RuleMatches(rule, cmd) ==
    CASE rule.class = "RmRule" -> RmMatches(cmd)
      [] rule.class = "MvRule" -> MvMatches(cmd)
      [] rule.class = "CpRule" -> CpMatches(cmd)
      [] rule.class = "ChmodRule" -> ChmodMatches(cmd)
      [] rule.class = "ChownRule" -> ChownMatches(cmd)
      [] rule.class = "GitResetRule" -> GitResetMatches(cmd)
      [] rule.class = "GitPushForceRule" -> GitPushForceMatches(cmd)
      [] rule.class = "GitCleanRule" -> GitCleanMatches(cmd)
      [] rule.class = "GitBranchDeleteRule" -> GitBranchDeleteMatches(cmd)
      [] rule.class = "DockerSystemPruneRule" -> DockerSystemPruneMatches(cmd)
      [] rule.class = "DockerRmRule" -> DockerRmMatches(cmd)
      [] rule.class = "DockerRmiRule" -> DockerRmiMatches(cmd)
      [] rule.class = "DockerVolumePruneRule" -> DockerVolumePruneMatches(cmd)
      [] rule.class = "SudoRule" -> SudoMatches(cmd)
      [] rule.class = "DdRule" -> DdMatches(cmd)
      [] rule.class = "KillRule" -> KillMatches(cmd)
      [] rule.class = "ShutdownRule" -> ShutdownMatches(cmd)
      [] rule.class = "MkfsRule" -> MkfsMatches(cmd)
      [] rule.class = "DummyRule" -> cmd.command = <<"d", "u", "m", "m", "y">>
      [] rule.class = "AnotherRmRule" -> cmd.command = <<"r", "m">>
      [] rule.class = "CompositeRule" ->
            \E i \in 1..Len(rule.rules) : RuleMatches(rule.rules[i], cmd)

RECURSIVE RuleAnalyze(_, _)
\* rule.analyze(command)
RuleAnalyze(rule, cmd) ==
    CASE rule.class = "RmRule" -> RmAnalyze(cmd)
      [] rule.class = "MvRule" -> MvAnalyze(cmd)
      [] rule.class = "CpRule" -> CpAnalyze(cmd)
      [] rule.class = "ChmodRule" -> ChmodAnalyze(cmd)
      [] rule.class = "ChownRule" -> ChownAnalyze(cmd)
      [] rule.class = "GitResetRule" -> GitResetAnalyze(cmd)
      [] rule.class = "GitPushForceRule" -> GitPushForceAnalyze(cmd)
      [] rule.class = "GitCleanRule" -> GitCleanAnalyze(cmd)
      [] rule.class = "GitBranchDeleteRule" -> GitBranchDeleteAnalyze(cmd)
      [] rule.class = "DockerSystemPruneRule" -> DockerSystemPruneAnalyze(cmd)
      [] rule.class = "DockerRmRule" -> DockerRmAnalyze(cmd)
      [] rule.class = "DockerRmiRule" -> DockerRmiAnalyze(cmd)
      [] rule.class = "DockerVolumePruneRule" -> DockerVolumePruneAnalyze(cmd)
      [] rule.class = "SudoRule" -> SudoAnalyze(cmd)
      [] rule.class = "DdRule" -> DdAnalyze(cmd)
      [] rule.class = "KillRule" -> KillAnalyze(cmd)
      [] rule.class = "ShutdownRule" -> ShutdownAnalyze(cmd)
      [] rule.class = "MkfsRule" -> MkfsAnalyze(cmd)
      [] rule.class = "DummyRule" ->
            RuleMatch("dummy_rule", "LOW", Msg("Dummy message"), None, None)
      [] rule.class = "AnotherRmRule" ->
            RuleMatch("another_rm_rule", "MEDIUM", Msg("Another rm warning"),
                      None, None)
      [] rule.class = "CompositeRule" ->
            LET matching == SelectSeq(rule.rules, LAMBDA r : RuleMatches(r, cmd))
                matches == [i \in 1..Len(matching) |-> RuleAnalyze(matching[i], cmd)]
            IN IF matches = <<>>
               THEN RuleMatch("composite_rule", "SAFE", Msg("No risks detected"),
                              None, None)
               ELSE MaxMatch(matches)

(***************************************************************************)
(* RuleRegistry (rules/registry.py): the operations as functions of the    *)
(* rule list.                                                              *)
(***************************************************************************)
\* register gone wrong: the name check is missing
MutRegisterNoNameCheck(rs, obj) ==
    IF ~IsRule(obj) THEN [rules |-> rs, outcome |-> "TypeError"]
    ELSE [rules |-> Append(rs, obj), outcome |-> "ok"]

\* register gone wrong: the rule is appended before the name check raises
MutRegisterAppendsBeforeCheck(rs, obj) ==
    IF ~IsRule(obj) THEN [rules |-> rs, outcome |-> "TypeError"]
    ELSE IF \E i \in 1..Len(rs) : RuleName(rs[i]) = RuleName(obj)
    THEN [rules |-> Append(rs, obj), outcome |-> "ValueError"]
    ELSE [rules |-> Append(rs, obj), outcome |-> "ok"]

\* RuleRegistry.register: the rule list afterwards and how the call ended
RegisterResult(rs, obj) ==
    IF ~IsRule(obj) THEN [rules |-> rs, outcome |-> "TypeError"]
    ELSE IF \E i \in 1..Len(rs) : RuleName(rs[i]) = RuleName(obj)
    THEN [rules |-> rs, outcome |-> "ValueError"]
    ELSE [rules |-> Append(rs, obj), outcome |-> "ok"]

\* for i, rule in enumerate(self._rules): the first index holding the name
FirstIndexOf(rs, name) ==
    IF \E i \in 1..Len(rs) : RuleName(rs[i]) = name
    THEN CHOOSE i \in 1..Len(rs) :
             /\ RuleName(rs[i]) = name
             /\ \A j \in 1..(i - 1) : RuleName(rs[j]) # name
    ELSE 0

\* list.pop(i)
Pop(rs, i) == SubSeq(rs, 1, i - 1) \o SubSeq(rs, i + 1, Len(rs))

\* unregister gone wrong: pop() without the index removes the last rule
MutUnregisterPopsLast(rs, name) ==
    IF FirstIndexOf(rs, name) > 0
    THEN [rules |-> SubSeq(rs, 1, Len(rs) - 1), ret |-> TRUE]
    ELSE [rules |-> rs, ret |-> FALSE]

\* RuleRegistry.unregister: the rule list afterwards and the value returned
UnregisterResult(rs, name) ==
    LET i == FirstIndexOf(rs, name) IN
    IF i > 0 THEN [rules |-> Pop(rs, i), ret |-> TRUE]
    ELSE [rules |-> rs, ret |-> FALSE]

\* RuleRegistry.clear
ClearResult(rs) == <<>>

RECURSIVE RegisterAll(_, _)
\* _register_default_rules: register each in turn; an error ends construction
RegisterAll(reg, classes) ==
    IF classes = <<>> \/ ~reg.ok THEN reg
    ELSE LET r == RegisterResult(reg.rules, Obj(classes[1]))
         IN RegisterAll([ok |-> r.outcome = "ok", rules |-> r.rules],
                        Tail(classes))

\* RuleRegistry.__init__
NewRegistry == RegisterAll([ok |-> TRUE, rules |-> <<>>], DefaultRuleClasses)

\* RuleRegistry.get_rule: <<rule>> or None
GetRule(rs, name) ==
    LET i == FirstIndexOf(rs, name) IN IF i > 0 THEN Some(rs[i]) ELSE None

\* RuleRegistry.find_matching_rules
FindMatchingRules(rs, cmd) == SelectSeq(rs, LAMBDA r : RuleMatches(r, cmd))

\* RuleRegistry.analyze_command
AnalyzeCommand(rs, cmd) ==
    LET matching == FindMatchingRules(rs, cmd)
    IN [i \in 1..Len(matching) |-> RuleAnalyze(matching[i], cmd)]

\* RuleRegistry.get_highest_danger_level
GetHighestDangerLevel(rs, cmd) ==
    LET matches == AnalyzeCommand(rs, cmd) IN
    IF matches = <<>> THEN "SAFE"
    ELSE MaxLevel([i \in 1..Len(matches) |-> matches[i].danger_level])

(***************************************************************************)
(* CommandAnalyzer (core/analyzer.py).                                     *)
(***************************************************************************)
\* the seen-set loop gone wrong: nothing is ever found in seen
MutUniqueFromKeepsAll(xs, i, seen, out) == out \o SubSeq(xs, i, Len(xs))

RECURSIVE UniqueFrom(_, _, _, _)
\* the seen-set loop: keep the first occurrence of each element, in order
UniqueFrom(xs, i, seen, out) ==
    IF i > Len(xs) THEN out
    ELSE IF xs[i] \in seen THEN UniqueFrom(xs, i + 1, seen, out)
    ELSE UniqueFrom(xs, i + 1, seen \cup {xs[i]}, Append(out, xs[i]))

\* CommandAnalyzer._aggregate_warnings
AggregateWarnings(matches) ==
    UniqueFrom([i \in 1..Len(matches) |-> matches[i].message], 1, {}, <<>>)

\* CommandAnalyzer._aggregate_suggestions
AggregateSuggestions(matches) ==
    LET given == SelectSeq(matches, LAMBDA m : m.suggestion # None)
    IN UniqueFrom([i \in 1..Len(given) |-> given[i].suggestion[1]], 1, {}, <<>>)

\* CommandAnalyzer._aggregate_safe_alternatives
AggregateSafeAlternatives(matches) ==
    LET given == SelectSeq(matches, LAMBDA m : m.safe_alternative # None)
    IN UniqueFrom([i \in 1..Len(given) |-> given[i].safe_alternative[1]], 1, {},
                  <<>>)

\* CommandAnalyzer._get_primary_warning
GetPrimaryWarning(matches, danger_level) == MaxMatch(matches).message

\* CommandAnalyzer._create_safe_result
CreateSafeResult(cmd) ==
    [command |-> cmd, danger_level |-> "SAFE", matches |-> <<>>,
     primary_warning |-> Msg("No safety concerns detected."),
     all_warnings |-> <<>>, suggestions |-> <<>>, safe_alternatives |-> <<>>]

\* CommandAnalyzer.analyze
Analyze(rs, cmd) ==
    LET matches == AnalyzeCommand(rs, cmd) IN
    IF matches = <<>> THEN CreateSafeResult(cmd)
    ELSE LET danger_level ==
                 MaxLevel([i \in 1..Len(matches) |-> matches[i].danger_level])
         IN [command |-> cmd,
             danger_level |-> danger_level,
             matches |-> matches,
             primary_warning |-> GetPrimaryWarning(matches, danger_level),
             all_warnings |-> AggregateWarnings(matches),
             suggestions |-> AggregateSuggestions(matches),
             safe_alternatives |-> AggregateSafeAlternatives(matches)]

\* AnalysisResult.is_safe
IsSafe(result) == result.danger_level \in {"SAFE", "LOW"}

\* AnalysisResult.has_safe_alternatives
HasSafeAlternatives(result) == Len(result.safe_alternatives) > 0

\* CommandAnalyzer.__init__: self.registry = registry if registry else
\* RuleRegistry().  A registry is false when it is None or, having __len__,
\* when it holds no rule; the analyzer then owns a new default registry,
\* otherwise it refers to the registry it was given.
CommandAnalyzerInit(registry) ==
    IF Len(registry) > 0
    THEN [own |-> FALSE, registry |-> <<>>]
    ELSE [own |-> TRUE, registry |-> NewRegistry.rules]

(***************************************************************************)
(* UserPrompt (ui/prompts.py).  The user's answers are a sequence of       *)
(* numbers consumed one per prompt shown: to a selection, 0 means the      *)
(* prompt was cancelled (ask() returns None) and k > 0 picks the k-th      *)
(* choice; to a yes/no confirmation, 1 is yes and 0 is no.  Each prompt    *)
(* function returns the response, the prompts it showed and whether the    *)
(* answers were ones the prompts offer.                                    *)
(***************************************************************************)
\* UserPrompt._prompt_choice: the selected choice, or None when cancelled
PromptChoice(choices, answer) ==
    IF answer = 0 THEN None ELSE Some(choices[answer])

\* the answers a selection among choices can receive
ValidChoice(choices, answer) == answer \in 0..Len(choices)

\* rich.prompt.Confirm.ask
ConfirmAsk(answer) == answer = 1

\* the answers a confirmation can receive
ValidConfirm(answer) == answer \in {0, 1}

Prompted(response, shown, valid) ==
    [response |-> response, shown |-> shown, valid |-> valid]

\* UserPrompt._critical_prompt
CriticalPrompt(result, answers) ==
    IF HasSafeAlternatives(result)
    THEN LET choices == <<<<"A", "b", "o", "r", "t">>, <<"V", "i", "e", "w", " ", "s", "a", "f",
            "e", " ", "a", "l", "t", "e", "r", "n", "a", "t", "i", "v", "e">>, <<"C", "o", "n",
                    "t", "i", "n", "u", "e", " ", "a", "n", "y", "w", "a", "y">>>>
             choice == PromptChoice(choices, answers[1])
             valid == ValidChoice(choices, answers[1])
         IN IF ~valid THEN Prompted("ABORT", <<"select">>, FALSE)
            ELSE IF choice = Some(<<"A", "b", "o", "r", "t">>)
            THEN Prompted("ABORT", <<"select">>, TRUE)
            ELSE IF choice = Some(<<"V", "i", "e", "w", " ", "s", "a", "f", "e", " ", "a", "l",
                    "t", "e", "r", "n", "a", "t", "i", "v", "e">>)
            THEN Prompted("VIEW_ALTERNATIVE", <<"select">>, TRUE)
            ELSE Prompted("CONTINUE", <<"select">>, TRUE)
    ELSE LET choices == <<<<"A", "b", "o", "r", "t">>, <<"C", "o", "n", "t", "i", "n", "u", "e",
            " ", "a", "n", "y", "w", "a", "y">>>>
             choice == PromptChoice(choices, answers[1])
             valid == ValidChoice(choices, answers[1])
         IN IF ~valid THEN Prompted("ABORT", <<"select">>, FALSE)
            ELSE IF choice = Some(<<"A", "b", "o", "r", "t">>)
            THEN Prompted("ABORT", <<"select">>, TRUE)
            ELSE Prompted("CONTINUE", <<"select">>, TRUE)

\* _high_prompt continuing although the second confirmation was declined
MutHighPromptIgnoresSecondConfirm(result, answers) ==
    IF HasSafeAlternatives(result)
    THEN LET choices == <<<<"A", "b", "o", "r", "t">>, <<"C", "o", "n", "t", "i", "n", "u", "e",
            " ", "a", "n", "y", "w", "a", "y">>, <<"V", "i", "e", "w", " ", "s", "a", "f", "e",
                    " ", "a", "l", "t", "e", "r", "n", "a", "t", "i", "v", "e">>>>
             choice == PromptChoice(choices, answers[1])
             valid == ValidChoice(choices, answers[1])
         IN IF ~valid THEN Prompted("ABORT", <<"select">>, FALSE)
            ELSE IF choice = Some(<<"A", "b", "o", "r", "t">>)
            THEN Prompted("ABORT", <<"select">>, TRUE)
            ELSE IF choice = Some(<<"V", "i", "e", "w", " ", "s", "a", "f", "e", " ", "a", "l",
                    "t", "e", "r", "n", "a", "t", "i", "v", "e">>)
            THEN Prompted("VIEW_ALTERNATIVE", <<"select">>, TRUE)
            ELSE IF ConfirmAsk(answers[2])
            THEN Prompted("CONTINUE", <<"select", "confirm">>,
                          ValidConfirm(answers[2]))
            ELSE Prompted("CONTINUE", <<"select", "confirm">>,
                          ValidConfirm(answers[2]))
    ELSE IF ConfirmAsk(answers[1])
    THEN Prompted("CONTINUE", <<"confirm">>, ValidConfirm(answers[1]))
    ELSE Prompted("ABORT", <<"confirm">>, ValidConfirm(answers[1]))

\* UserPrompt._high_prompt
HighPrompt(result, answers) ==
    IF HasSafeAlternatives(result)
    THEN LET choices == <<<<"A", "b", "o", "r", "t">>, <<"C", "o", "n", "t", "i", "n", "u", "e",
            " ", "a", "n", "y", "w", "a", "y">>, <<"V", "i", "e", "w", " ", "s", "a", "f", "e",
                    " ", "a", "l", "t", "e", "r", "n", "a", "t", "i", "v", "e">>>>
             choice == PromptChoice(choices, answers[1])
             valid == ValidChoice(choices, answers[1])
         IN IF ~valid THEN Prompted("ABORT", <<"select">>, FALSE)
            ELSE IF choice = Some(<<"A", "b", "o", "r", "t">>)
            THEN Prompted("ABORT", <<"select">>, TRUE)
            ELSE IF choice = Some(<<"V", "i", "e", "w", " ", "s", "a", "f", "e", " ", "a", "l",
                    "t", "e", "r", "n", "a", "t", "i", "v", "e">>)
            THEN Prompted("VIEW_ALTERNATIVE", <<"select">>, TRUE)
            ELSE IF ConfirmAsk(answers[2])
            THEN Prompted("CONTINUE", <<"select", "confirm">>,
                          ValidConfirm(answers[2]))
            ELSE Prompted("ABORT", <<"select", "confirm">>,
                          ValidConfirm(answers[2]))
    ELSE IF ConfirmAsk(answers[1])
    THEN Prompted("CONTINUE", <<"confirm">>, ValidConfirm(answers[1]))
    ELSE Prompted("ABORT", <<"confirm">>, ValidConfirm(answers[1]))

\* UserPrompt._medium_prompt
MediumPrompt(result, answers) ==
    IF HasSafeAlternatives(result)
    THEN LET choices == <<<<"C", "o", "n", "t", "i", "n", "u", "e">>, <<"V", "i", "e", "w", " ",
            "s", "a", "f", "e", " ", "a", "l", "t", "e", "r", "n", "a", "t", "i", "v",
                    "e">>, <<"A", "b", "o", "r", "t">>>>
             choice == PromptChoice(choices, answers[1])
             valid == ValidChoice(choices, answers[1])
         IN IF ~valid THEN Prompted("ABORT", <<"select">>, FALSE)
            ELSE IF choice = Some(<<"A", "b", "o", "r", "t">>)
            THEN Prompted("ABORT", <<"select">>, TRUE)
            ELSE IF choice = Some(<<"V", "i", "e", "w", " ", "s", "a", "f", "e", " ", "a", "l",
                    "t", "e", "r", "n", "a", "t", "i", "v", "e">>)
            THEN Prompted("VIEW_ALTERNATIVE", <<"select">>, TRUE)
            ELSE Prompted("CONTINUE", <<"select">>, TRUE)
    ELSE IF ConfirmAsk(answers[1])
    THEN Prompted("CONTINUE", <<"confirm">>, ValidConfirm(answers[1]))
    ELSE Prompted("ABORT", <<"confirm">>, ValidConfirm(answers[1]))

\* confirm_execution gone wrong: a CRITICAL command is refused outright
MutConfirmExecutionBlocksCritical(result, skip_prompt, answers) ==
    IF result.danger_level = "CRITICAL" THEN Prompted("ABORT", <<>>, TRUE)
    ELSE IF skip_prompt THEN Prompted("CONTINUE", <<>>, TRUE)
    ELSE IF IsSafe(result) THEN Prompted("CONTINUE", <<>>, TRUE)
    ELSE IF result.danger_level = "HIGH" THEN HighPrompt(result, answers)
    ELSE IF result.danger_level = "MEDIUM" THEN MediumPrompt(result, answers)
    ELSE Prompted("CONTINUE", <<>>, TRUE)

\* confirm_execution asking for confirmation of a LOW command as well
MutConfirmExecutionPromptsLow(result, skip_prompt, answers) ==
    IF skip_prompt THEN Prompted("CONTINUE", <<>>, TRUE)
    ELSE IF result.danger_level = "SAFE" THEN Prompted("CONTINUE", <<>>, TRUE)
    ELSE IF result.danger_level = "CRITICAL" THEN CriticalPrompt(result, answers)
    ELSE IF result.danger_level = "HIGH" THEN HighPrompt(result, answers)
    ELSE MediumPrompt(result, answers)

\* UserPrompt.confirm_execution
ConfirmExecution(result, skip_prompt, answers) ==
    IF skip_prompt THEN Prompted("CONTINUE", <<>>, TRUE)
    ELSE IF IsSafe(result) THEN Prompted("CONTINUE", <<>>, TRUE)
    ELSE IF result.danger_level = "CRITICAL" THEN CriticalPrompt(result, answers)
    ELSE IF result.danger_level = "HIGH" THEN HighPrompt(result, answers)
    ELSE IF result.danger_level = "MEDIUM" THEN MediumPrompt(result, answers)
    ELSE Prompted("CONTINUE", <<>>, TRUE)

\* UserPrompt.choose_alternative: the pair (should_use_alternative, chosen)
ChooseAlternative(alternatives, answer) ==
    LET choices == alternatives \o <<<<"U", "s", "e", " ", "o", "r", "i", "g", "i", "n", "a", "l",
            " ", "c", "o", "m", "m", "a", "n", "d">>, <<"A", "b", "o", "r", "t">>>>
        choice == PromptChoice(choices, answer)
    IN IF ~ValidChoice(choices, answer)
       THEN [use_alt |-> FALSE, chosen |-> None, valid |-> FALSE]
       ELSE IF choice = Some(<<"A", "b", "o", "r", "t">>)
       THEN [use_alt |-> FALSE, chosen |-> None, valid |-> TRUE]
       ELSE IF choice = Some(<<"U", "s", "e", " ", "o", "r", "i", "g", "i", "n", "a", "l", " ",
               "c", "o", "m", "m", "a", "n", "d">>)
       THEN [use_alt |-> FALSE, chosen |-> None, valid |-> TRUE]
       ELSE [use_alt |-> TRUE, chosen |-> choice, valid |-> TRUE]

(***************************************************************************)
(* CommandExecutor (core/executor.py).  What the spawned process does is   *)
(* the environment's choice: it ends with a return code, or running it     *)
(* raises (a timeout or an OS error).                                      *)
(***************************************************************************)
ProcessOutcomes == {"exit 0", "exit 1", "raises"}

\* CommandExecutor.execute
Execute(command, process) ==
    [command |-> command,
     success |-> process = "exit 0",
     return_code |-> CASE process = "exit 0" -> 0
                       [] process = "exit 1" -> 1
                       [] process = "raises" -> -1]

(***************************************************************************)
(* The command-line entry point (cli.py).  A run is summarised by its exit *)
(* code, whether the text was parsed, analysed and the analysis displayed, *)
(* the prompts shown, and the command strings handed to the executor.      *)
(***************************************************************************)
Run(exit_code, parsed, analysed, displayed, shown, executed, valid) ==
    [exit_code |-> exit_code, parsed |-> parsed, analysed |-> analysed,
     displayed |-> displayed, shown |-> shown, executed |-> executed,
     valid |-> valid]

\* main, from the user's decision on: execute what was decided and exit
Decide(command_str, result, skip_prompt, answers, process) ==
    LET conf == ConfirmExecution(result, skip_prompt, answers)
        original == Execute(command_str, process)
    IN IF ~conf.valid
       THEN Run(0, TRUE, TRUE, TRUE, conf.shown, <<>>, FALSE)
       ELSE IF conf.response = "ABORT"
       THEN Run(0, TRUE, TRUE, TRUE, conf.shown, <<>>, TRUE)
       ELSE IF conf.response = "VIEW_ALTERNATIVE"
       THEN IF result.safe_alternatives # <<>>
            THEN LET pick == ChooseAlternative(result.safe_alternatives,
                                               answers[Len(conf.shown) + 1])
                     shown == Append(conf.shown, "select")
                 IN IF ~pick.valid
                    THEN Run(0, TRUE, TRUE, TRUE, shown, <<>>, FALSE)
                    ELSE IF pick.chosen # None /\ pick.chosen[1] # <<>>
                    THEN Run(Execute(pick.chosen[1], process).return_code,
                             TRUE, TRUE, TRUE, shown, <<pick.chosen[1]>>, TRUE)
                    ELSE IF pick.use_alt = FALSE /\ pick.chosen = None
                    THEN Run(0, TRUE, TRUE, TRUE, shown, <<>>, TRUE)
                    ELSE Run(original.return_code, TRUE, TRUE, TRUE, shown,
                             <<command_str>>, TRUE)
            ELSE Run(original.return_code, TRUE, TRUE, TRUE, conf.shown,
                     <<command_str>>, TRUE)
       ELSE Run(original.return_code, TRUE, TRUE, TRUE, conf.shown,
                <<command_str>>, TRUE)

\* main gone wrong: the dry-run test is missing
MutMainIgnoresDryRun(command, dry_run, yes, answers, process) ==
    IF command = <<>>
    THEN Run(1, FALSE, FALSE, FALSE, <<>>, <<>>, TRUE)
    ELSE LET command_str == Join(command)
             parsed == Parse(command_str)
         IN IF ~parsed.ok
            THEN Run(1, FALSE, FALSE, FALSE, <<>>, <<>>, TRUE)
            ELSE Decide(command_str, Analyze(NewRegistry.rules, parsed.cmd),
                        yes, answers, process)

\* main(command, dry_run, yes)
Main(command, dry_run, yes, answers, process) ==
    IF command = <<>>
    THEN Run(1, FALSE, FALSE, FALSE, <<>>, <<>>, TRUE)
    ELSE LET command_str == Join(command)
             parsed == Parse(command_str)
         IN IF ~parsed.ok
            THEN Run(1, FALSE, FALSE, FALSE, <<>>, <<>>, TRUE)
            ELSE LET result == Analyze(NewRegistry.rules, parsed.cmd)
                 IN IF dry_run
                    THEN Run(0, TRUE, TRUE, TRUE, <<>>, <<>>, TRUE)
                    ELSE Decide(command_str, result, yes, answers, process)

(***************************************************************************)
(* The inputs the model draws.                                             *)
(***************************************************************************)
\* characters of the raw texts: a letter, the flag dash, a blank, the two
\* quotes and the escape
Alphabet == {"a", "-", " ", "'", "\"", "\\"}

\* every text of at most MaxRawLen characters
ShortTexts == UNION {[1..n -> Alphabet] : n \in 0..MaxRawLen}

WordPool == {<<"r", "m">>, <<"-", "r", "f">>, <<"x">>, <<"-", "-", "f", "o", "r", "c",
        "e">>, <<"'", "a", " ", "b", "'">>, <<"\\", "t">>}

\* one to MaxWords words joined by blanks
WordTexts == {Join(ws) : ws \in UNION {[1..n -> WordPool] : n \in 1..MaxWords}}

RawTexts == ShortTexts \cup WordTexts

\* command lines analysed: unmatched, each rule family, several rules at once
\* (with and without ties), duplicate alternatives
AnalyzeTexts ==
    {<<"e", "c", "h", "o", " ", "h", "e", "l", "l", "o">>, <<"d", "u", "m", "m", "y">>, <<"c",
            "p", " ", "a", " ", "b">>, <<"m", "v", " ", "a", " ", "b">>, <<"r", "m", " ",
                    "x">>, <<"r", "m", " ", "-", "i", " ", "x">>, <<"r", "m", " ", "-", "r", " ",
                            "x">>,
     <<"r", "m", " ", "-", "r", "f", " ", "x">>, <<"r", "m", " ", "-", "r", "f", " ",
             "/">>, <<"c", "h", "m", "o", "d", " ", "7", "7", "7", " ", "x">>, <<"c", "h", "o",
                     "w", "n", " ", "-", "R", " ", "u", " ", "/", "e", "t", "c">>, <<"s", "u",
                             "d", "o", " ", "r", "m", " ", "x">>,
     <<"d", "d", " ", "o", "f", "=", "/", "d", "e", "v", "/", "s", "d", "a">>, <<"k", "i", "l",
             "l", " ", "-", "9", " ", "1">>, <<"k", "i", "l", "l", "a", "l", "l", " ",
                     "x">>, <<"r", "e", "b", "o", "o", "t">>, <<"m", "k", "f", "s", " ", "x">>,
     <<"g", "i", "t", " ", "p", "u", "s", "h", " ", "-", "f">>, <<"g", "i", "t", " ", "r", "e",
             "s", "e", "t", " ", "c", "l", "e", "a", "n">>, <<"g", "i", "t", " ", "r", "e", "s",
                     "e", "t", " ", "-", "f", " ", "c", "l", "e", "a", "n">>,
     <<"g", "i", "t", " ", "r", "e", "s", "e", "t", " ", "c", "l", "e", "a", "n", " ", "-", "f",
             "d">>, <<"g", "i", "t", " ", "p", "u", "s", "h", " ", "-", "f", " ", "c", "l", "e",
                     "a", "n">>, <<"d", "o", "c", "k", "e", "r", " ", "r", "m", " ", "r", "m",
                             "i">>,
     <<"d", "o", "c", "k", "e", "r", " ", "-", "f", " ", "r", "m", " ", "r", "m", "i">>, <<"d",
             "o", "c", "k", "e", "r", " ", "r", "m", " ", "r", "m", "i", " ", "x">>, <<"d", "o",
                     "c", "k", "e", "r", " ", "r", "m", " ", "r", "m", "i", " ", "-", "v">>,
     <<"d", "o", "c", "k", "e", "r", " ", "p", "r", "u", "n", "e", " ", "-", "f", " ", "r", "m",
             "i", " ", "v", "o", "l", "u", "m", "e">>}

\* command lines of the registry queries
QueryTexts ==
    {<<"e", "c", "h", "o", " ", "h", "e", "l", "l", "o">>, <<"d", "u", "m", "m", "y">>, <<"r",
            "m", " ", "-", "r", "f", " ", "x">>, <<"g", "i", "t", " ", "r", "e", "s", "e", "t",
                    " ", "-", "f", " ", "c", "l", "e", "a", "n">>, <<"d", "o", "c", "k", "e", "r",
                            " ", "r", "m", " ", "r", "m", "i", " ", "x">>}

\* the objects handed to register
RegisterArgs ==
    {Obj("RmRule"), Obj("DummyRule"), Obj("AnotherRmRule"),
     Composite(<<Obj("RmRule")>>), NotARule}

\* the names handed to unregister
UnregisterArgs == {"rm_command", "docker_rm", "another_rm_rule", "no_such_rule"}

\* the argument vectors of the command-line runs: none, unparsable ones, and
\* every danger level with and without safe alternatives
Commands ==
    {<<>>, <<<<" ">>>>, <<<<"r", "m">>, <<"\"", "x">>>>, <<<<"e", "c", "h", "o">>, <<"h", "e",
            "l", "l", "o">>>>, <<<<"r", "m">>, <<"x">>>>,
     <<<<"r", "m">>, <<"-", "r">>, <<"x">>>>, <<<<"k", "i", "l", "l", "a", "l",
             "l">>, <<"x">>>>, <<<<"r", "m">>, <<"-", "r", "f">>, <<"x">>>>, <<<<"r", "e", "b",
                     "o", "o", "t">>>>,
     <<<<"r", "m">>, <<"-", "r", "f">>, <<"/">>>>, <<<<"c", "h", "o", "w", "n">>, <<"-",
             "R">>, <<"u">>, <<"/", "e", "t", "c">>>>,
     <<<<"g", "i", "t">>, <<"r", "e", "s", "e", "t">>, <<"-", "f">>, <<"c", "l", "e", "a", "n">>>>}

(***************************************************************************)
(* State: the registry's rule list, the number of calls that may change    *)
(* it made so far, the analyzer (whether it owns its registry or refers to *)
(* the registry above), and the last call with what it returned.           *)
(***************************************************************************)
VARIABLES rules, nops, analyzer, call

vars == <<rules, nops, analyzer, call>>

\* analyzer.registry: the rules the analyzer consults
AnalyzerRegistry == IF analyzer.own THEN analyzer.registry ELSE rules

\* registry = RuleRegistry(): the default rules registered in order;
\* analyzer = CommandAnalyzer(registry)
Init ==
    /\ NewRegistry.ok
    /\ rules = NewRegistry.rules
    /\ nops = 0
    /\ analyzer = CommandAnalyzerInit(NewRegistry.rules)
    /\ call = [op |-> "init"]

\* registry.register(obj)
Register(obj) ==
    /\ nops < MaxOps
    /\ LET r == RegisterResult(rules, obj) IN
       /\ rules' = r.rules
       /\ call' = [op |-> "register", rule |-> obj, outcome |-> r.outcome]
    /\ nops' = nops + 1
    /\ UNCHANGED analyzer

\* registry.unregister(name)
Unregister(name) ==
    /\ nops < MaxOps
    /\ LET r == UnregisterResult(rules, name) IN
       /\ rules' = r.rules
       /\ call' = [op |-> "unregister", name |-> name, ret |-> r.ret]
    /\ nops' = nops + 1
    /\ UNCHANGED analyzer

\* registry.clear()
Clear ==
    /\ nops < MaxOps
    /\ rules' = ClearResult(rules)
    /\ call' = [op |-> "clear"]
    /\ nops' = nops + 1
    /\ UNCHANGED analyzer

\* registry.find_matching_rules(parse(raw))
FindMatchingRulesCall(raw) ==
    /\ Parse(raw).ok
    /\ call' = [op |-> "find_matching_rules", raw |-> raw,
                ret |-> FindMatchingRules(rules, Parse(raw).cmd)]
    /\ UNCHANGED <<rules, nops, analyzer>>

\* registry.analyze_command(parse(raw))
AnalyzeCommandCall(raw) ==
    /\ Parse(raw).ok
    /\ call' = [op |-> "analyze_command", raw |-> raw,
                ret |-> AnalyzeCommand(rules, Parse(raw).cmd)]
    /\ UNCHANGED <<rules, nops, analyzer>>

\* analyzer = CommandAnalyzer(registry)
NewAnalyzer ==
    /\ analyzer' = CommandAnalyzerInit(rules)
    /\ call' = [op |-> "new_analyzer"]
    /\ UNCHANGED <<rules, nops>>

\* analyzer.analyze(parse(raw))
AnalyzeCall(raw) ==
    /\ Parse(raw).ok
    /\ call' = [op |-> "analyze", raw |-> raw,
                result |-> Analyze(AnalyzerRegistry, Parse(raw).cmd)]
    /\ UNCHANGED <<rules, nops, analyzer>>

\* CommandParser().parse(raw), on the text drawn at the start
ParseCall ==
    /\ call.op = "parse_input"
    /\ call' = [op |-> "parse", raw |-> call.raw, ret |-> Parse(call.raw)]
    /\ UNCHANGED <<rules, nops, analyzer>>

\* one run of the command line, safe [--dry-run] [--yes] command..., with the
\* arguments, the user's answers and the process's fate drawn at the start
MainCall ==
    /\ call.op = "main_input"
    /\ LET run == Main(call.command, call.dry_run, call.yes, call.answers,
                       call.process)
       IN /\ run.valid
          /\ call' = [op |-> "main", command |-> call.command,
                      dry_run |-> call.dry_run, yes |-> call.yes,
                      answers |-> call.answers, process |-> call.process,
                      run |-> run]
    /\ UNCHANGED <<rules, nops, analyzer>>

\* analyze_batch with one list of matches shared by the whole batch: each
\* command is analysed on top of the matches of the commands before it
MutAnalyzeBatchSharesMatches(rs, cmds) ==
    [i \in 1..Len(cmds) |->
         LET own == Analyze(rs, cmds[i])
             before == IF i = 1 THEN <<>>
                       ELSE AnalyzeCommand(rs, cmds[i - 1])
         IN [own EXCEPT !.matches = before \o own.matches]]

\* CommandAnalyzer.analyze_batch
AnalyzeBatch(rs, cmds) == [i \in 1..Len(cmds) |-> Analyze(rs, cmds[i])]

\* most commands in one analyze_batch call
MaxBatch == 2

\* command lines analysed in batches: unmatched, one rule, two rules
BatchTexts == {<<"e", "c", "h", "o", " ", "h", "e", "l", "l", "o">>, <<"r", "m", " ", "x">>, <<"d", "o", "c", "k", "e", "r", " ", "r", "m", " ", "r", "m", "i", " ", "x">>}

\* analyzer.analyze_batch([parse(raw) for raw in raws])
AnalyzeBatchCall(raws) ==
    /\ \A i \in 1..Len(raws) : Parse(raws[i]).ok
    /\ call' = [op |-> "analyze_batch", raws |-> raws,
                results |-> AnalyzeBatch(AnalyzerRegistry,
                                [i \in 1..Len(raws) |-> Parse(raws[i]).cmd])]
    /\ UNCHANGED <<rules, nops, analyzer>>

\* registry.get_highest_danger_level(parse(raw))
GetHighestDangerLevelCall(raw) ==
    /\ Parse(raw).ok
    /\ call' = [op |-> "get_highest_danger_level", raw |-> raw,
                ret |-> GetHighestDangerLevel(rules, Parse(raw).cmd)]
    /\ UNCHANGED <<rules, nops, analyzer>>

\* the registry and the analyzer on top of it
Next ==
    \/ \E obj \in RegisterArgs : Register(obj)
    \/ \E name \in UnregisterArgs : Unregister(name)
    \/ Clear
    \/ NewAnalyzer
    \/ \E raw \in QueryTexts : FindMatchingRulesCall(raw)
    \/ \E raw \in QueryTexts : AnalyzeCommandCall(raw)
    \/ \E raw \in AnalyzeTexts : AnalyzeCall(raw)
    \/ \E raws \in UNION {[1..n -> BatchTexts] : n \in 0..MaxBatch} :
           AnalyzeBatchCall(raws)
    \/ \E raw \in QueryTexts : GetHighestDangerLevelCall(raw)

Spec == Init /\ [][Next]_vars

\* the parser: a raw text is drawn, then parsed
InitParse ==
    /\ NewRegistry.ok
    /\ rules = NewRegistry.rules
    /\ nops = 0
    /\ analyzer = CommandAnalyzerInit(NewRegistry.rules)
    /\ \E raw \in RawTexts : call = [op |-> "parse_input", raw |-> raw]

NextParse == ParseCall

SpecParse == InitParse /\ [][NextParse]_vars

\* the command line: the run's inputs are drawn, then main runs
InitCli ==
    /\ NewRegistry.ok
    /\ rules = NewRegistry.rules
    /\ nops = 0
    /\ analyzer = CommandAnalyzerInit(NewRegistry.rules)
    /\ \E command \in Commands, dry_run \in BOOLEAN, yes \in BOOLEAN,
          answers \in [1..2 -> 0..MaxChoice], process \in ProcessOutcomes :
           call = [op |-> "main_input", command |-> command,
                   dry_run |-> dry_run, yes |-> yes, answers |-> answers,
                   process |-> process]

NextCli == MainCall

SpecCli == InitCli /\ [][NextCli]_vars

\* the parser and the command line together
InitParseCli == InitParse \/ InitCli

NextParseCli == ParseCall \/ MainCall

SpecParseCli == InitParseCli /\ [][NextParseCli]_vars

(***************************************************************************)
(* Properties.                                                             *)
(***************************************************************************)
\* position of a danger level in SAFE < LOW < MEDIUM < HIGH < CRITICAL
LevelRank(level) ==
    CASE level = "SAFE" -> 0
      [] level = "LOW" -> 1
      [] level = "MEDIUM" -> 2
      [] level = "HIGH" -> 3
      [] level = "CRITICAL" -> 4

\* the positions of the registered rules that match the command
MatchingPositions(cmd) == {i \in 1..Len(rules) : RuleMatches(rules[i], cmd)}

\* the positions of the rules of the analyzer's registry that match the command
AnalyzerMatching(cmd) ==
    {i \in 1..Len(AnalyzerRegistry) : RuleMatches(AnalyzerRegistry[i], cmd)}

NoDuplicates(xs) == \A i, j \in 1..Len(xs) : i # j => xs[i] # xs[j]

\* first position of value v in xs
FirstPosition(xs, v) ==
    CHOOSE k \in 1..Len(xs) : xs[k] = v /\ \A m \in 1..(k - 1) : xs[m] # v

\* out lists exactly the distinct non-null values of the optional values
\* opts, in order of first occurrence
DistinctInOrder(out, opts) ==
    /\ NoDuplicates(out)
    /\ {Some(out[i]) : i \in 1..Len(out)}
           = {opts[k] : k \in 1..Len(opts)} \ {None}
    /\ \A i, j \in 1..Len(out) :
           i < j => FirstPosition(opts, Some(out[i]))
                        < FirstPosition(opts, Some(out[j]))

\* C1: analyze of a command that no rule of the analyzer's registry matches
\* gives SAFE, empty matches, warnings, suggestions and alternatives and the
\* fixed primary warning; otherwise the danger level is the greatest of the
\* levels of the matches the matching rules produce.
C1_AnalyzeLevelIsMax ==
    call.op = "analyze" =>
        LET cmd == Parse(call.raw).cmd
            r == call.result
            levels == {RuleAnalyze(AnalyzerRegistry[i], cmd).danger_level :
                           i \in AnalyzerMatching(cmd)}
        IN IF AnalyzerMatching(cmd) = {}
           THEN /\ r.danger_level = "SAFE"
                /\ r.matches = <<>>
                /\ r.all_warnings = <<>>
                /\ r.suggestions = <<>>
                /\ r.safe_alternatives = <<>>
                /\ r.primary_warning = <<"No safety concerns detected.", <<>> >>
           ELSE /\ r.danger_level \in levels
                /\ \A l \in levels : LevelRank(l) <= LevelRank(r.danger_level)

\* several rules matched and the first match is not the most dangerous
W1_MaxNotFirst ==
    /\ call.op = "analyze"
    /\ Len(call.result.matches) >= 2
    /\ call.result.matches[1].danger_level # call.result.danger_level

\* C2: when a rule matches, the primary warning is the message of the first
\* rule in registration order whose match has the result's danger level; with
\* one matching rule the result carries that rule's message and level.
C2_PrimaryWarningFirstMax ==
    (call.op = "analyze" /\ AnalyzerMatching(Parse(call.raw).cmd) # {}) =>
        LET cmd == Parse(call.raw).cmd
            r == call.result
            top == {i \in AnalyzerMatching(cmd) :
                        RuleAnalyze(AnalyzerRegistry[i], cmd).danger_level = r.danger_level}
        IN /\ top # {}
           /\ \E i \in top :
                  /\ \A j \in top : i <= j
                  /\ r.primary_warning = RuleAnalyze(AnalyzerRegistry[i], cmd).message
           /\ \A i \in AnalyzerMatching(cmd) :
                  AnalyzerMatching(cmd) = {i} =>
                      /\ r.primary_warning = RuleAnalyze(AnalyzerRegistry[i], cmd).message
                      /\ r.danger_level = RuleAnalyze(AnalyzerRegistry[i], cmd).danger_level

\* two matches tie for the highest level with different messages
W2_TieForHighest ==
    /\ call.op = "analyze"
    /\ \E i, j \in 1..Len(call.result.matches) :
           /\ i < j
           /\ call.result.matches[i].danger_level = call.result.danger_level
           /\ call.result.matches[j].danger_level = call.result.danger_level
           /\ call.result.matches[i].message # call.result.matches[j].message

\* C3: all_warnings, suggestions and safe_alternatives have no duplicates,
\* hold exactly the distinct non-null messages, suggestions and alternatives
\* of the matches in order of first occurrence, and the primary warning is
\* one of all_warnings whenever a rule matched.
C3_AggregatesDistinctInOrder ==
    call.op = "analyze" =>
        LET r == call.result
            ms == AnalyzeCommand(AnalyzerRegistry, Parse(call.raw).cmd)
        IN /\ DistinctInOrder(r.all_warnings,
                              [k \in 1..Len(ms) |-> Some(ms[k].message)])
           /\ DistinctInOrder(r.suggestions,
                              [k \in 1..Len(ms) |-> ms[k].suggestion])
           /\ DistinctInOrder(r.safe_alternatives,
                              [k \in 1..Len(ms) |-> ms[k].safe_alternative])
           /\ ms # <<>> =>
                  \E i \in 1..Len(r.all_warnings) :
                      r.all_warnings[i] = r.primary_warning

\* two matches carry the same message, suggestion and alternative
W3_DuplicateValues ==
    /\ call.op = "analyze"
    /\ \E i, j \in 1..Len(call.result.matches) :
           /\ i < j
           /\ call.result.matches[i].message = call.result.matches[j].message
           /\ call.result.matches[i].suggestion # None
           /\ call.result.matches[i].suggestion
                  = call.result.matches[j].suggestion
           /\ call.result.matches[i].safe_alternative # None
           /\ call.result.matches[i].safe_alternative
                  = call.result.matches[j].safe_alternative

\* C4: whatever register, unregister and clear calls were made on a default
\* registry, no two registered rules share a name; the default registry
\* holds the 18 rule classes, one each, under 18 different names.
C4_NamesUnique ==
    /\ \A i, j \in 1..Len(rules) :
           i # j => RuleName(rules[i]) # RuleName(rules[j])
    /\ call.op = "init" =>
           /\ Len(rules) = 18
           /\ Cardinality({rules[i].class : i \in 1..Len(rules)}) = 18
           /\ Cardinality({RuleName(rules[i]) : i \in 1..Len(rules)}) = 18
           /\ \A i \in 1..Len(rules) : rules[i].class = DefaultRuleClasses[i]

\* a default rule was registered again after its name had been freed
W4_NameReused ==
    /\ call.op = "register"
    /\ call.outcome = "ok"
    /\ call.rule = [class |-> "RmRule", rules |-> <<>>]

\* C5: register raises ValueError when a rule of that name is registered
\* and TypeError when the argument is no Rule, and in both cases leaves the
\* rule list exactly as it was.
C5_RegisterFailures ==
    [][call'.op = "register" =>
          /\ call'.rule.class = "str" => call'.outcome = "TypeError"
          /\ (/\ call'.rule.class # "str"
              /\ \E i \in 1..Len(rules) :
                     RuleName(rules[i]) = RuleName(call'.rule))
                 => call'.outcome = "ValueError"
          /\ call'.outcome \in {"TypeError", "ValueError"} => rules' = rules
          /\ call'.outcome = "TypeError" => call'.rule.class = "str"
          /\ call'.outcome = "ValueError" =>
                 \E i \in 1..Len(rules) :
                     RuleName(rules[i]) = RuleName(call'.rule)]_vars

\* a rule registered by an earlier call is registered a second time
W5_DuplicateRejected ==
    /\ call.op = "register"
    /\ call.outcome = "ValueError"
    /\ call.rule = [class |-> "DummyRule", rules |-> <<>>]
    /\ Len(rules) = 19

\* xs is ys with some elements left out, the order kept
RECURSIVE IsSubsequence(_, _)
IsSubsequence(xs, ys) ==
    IF xs = <<>> THEN TRUE
    ELSE IF ys = <<>> THEN FALSE
    ELSE IF xs[1] = ys[1] THEN IsSubsequence(Tail(xs), Tail(ys))
    ELSE IsSubsequence(xs, Tail(ys))

\* the position in the rule list of the k-th rule matching the command
KthMatchingPosition(cmd, k) ==
    CHOOSE i \in MatchingPositions(cmd) :
        Cardinality({j \in MatchingPositions(cmd) : j <= i}) = k

\* C6: the rule list is in registration order: a successful register
\* appends at the end; unregister(name) removes the rule of that name and
\* nothing else, keeps the order of the others and returns whether there
\* was one; find_matching_rules and analyze_command return the matching
\* rules, and their matches, in the order of the rule list.
C6_RegistrationOrder ==
    /\ [][/\ (call'.op = "register" /\ call'.outcome = "ok") =>
                 /\ Len(rules') = Len(rules) + 1
                 /\ rules'[Len(rules')] = call'.rule
                 /\ \A i \in 1..Len(rules) : rules'[i] = rules[i]
          /\ call'.op = "unregister" =>
                 LET named == {i \in 1..Len(rules) :
                                   RuleName(rules[i]) = call'.name}
                 IN /\ call'.ret = (named # {})
                    /\ IsSubsequence(rules', rules)
                    /\ Len(rules') = Len(rules) - Cardinality(named)
                    /\ \A i \in 1..Len(rules') :
                           RuleName(rules'[i]) # call'.name
          /\ call'.op \in {"find_matching_rules", "analyze_command"} =>
                 rules' = rules
         ]_vars
    /\ [](/\ call.op = "find_matching_rules" =>
                 LET cmd == Parse(call.raw).cmd IN
                 /\ Len(call.ret) = Cardinality(MatchingPositions(cmd))
                 /\ \A k \in 1..Len(call.ret) :
                        call.ret[k] = rules[KthMatchingPosition(cmd, k)]
          /\ call.op = "analyze_command" =>
                 LET cmd == Parse(call.raw).cmd IN
                 /\ Len(call.ret) = Cardinality(MatchingPositions(cmd))
                 /\ \A k \in 1..Len(call.ret) :
                        call.ret[k]
                            = RuleAnalyze(rules[KthMatchingPosition(cmd, k)],
                                          cmd))

\* a rule in the middle of the list was removed
W6_MiddleRemoved ==
    /\ call.op = "unregister"
    /\ call.ret
    /\ call.name = "docker_rm"
    /\ Len(rules) >= 17

\* the text the command line parses: the arguments joined by blanks
CommandStr(command) == Join(command)

Count(s, c) == Cardinality({i \in 1..Len(s) : s[i] = c})

\* a text whose quotes cannot be balanced: an odd number of quotes of one
\* kind, none of the other kind and no escape
OddQuotes(s) ==
    /\ Count(s, "\\") = 0
    /\ \/ Count(s, "\"") % 2 = 1 /\ Count(s, "'") = 0
       \/ Count(s, "'") % 2 = 1 /\ Count(s, "\"") = 0

\* a text that is empty or made of blanks and tabs
Blank(s) == \A i \in 1..Len(s) : s[i] \in {" ", "\t"}

\* C9: parse raises ValueError for an empty or whitespace-only text and for
\* a text whose tokenization fails; when parse fails in a run of the command
\* line nothing is analysed or displayed, no prompt is shown, nothing is
\* executed and the exit code is 1.
C9_ParseFailure ==
    /\ call.op = "parse" =>
           /\ Blank(call.raw) =>
                  ~call.ret.ok /\ call.ret.error = "Command cannot be empty"
           /\ (~Blank(call.raw) /\ ~ShlexSplit(call.raw).ok) =>
                  ~call.ret.ok /\ call.ret.error = "Invalid command syntax"
           /\ OddQuotes(call.raw) => ~call.ret.ok
    /\ (/\ call.op = "main"
        /\ call.command # <<>>
        /\ \/ Blank(CommandStr(call.command))
           \/ OddQuotes(CommandStr(call.command))
           \/ ~Parse(CommandStr(call.command)).ok) =>
           /\ ~call.run.parsed
           /\ ~call.run.analysed
           /\ ~call.run.displayed
           /\ call.run.shown = <<>>
           /\ call.run.executed = <<>>
           /\ call.run.exit_code = 1

\* the command line was run, without --dry-run, on a text with an unclosed
\* quote
W9_UnclosedQuoteRun ==
    /\ call.op = "main"
    /\ ~call.dry_run
    /\ OddQuotes(CommandStr(call.command))
    /\ call.run.exit_code = 1

\* C10: of a parsed command, command is the first token, flags are the
\* tokens after it that start with '-', args the ones that do not, both in
\* their original order, so the two share nothing and together are as many
\* as the tokens after the first.
C10_ArgsFlagsPartition ==
    (call.op = "parse" /\ call.ret.ok) =>
        LET cmd == call.ret.cmd
            rest == Tail(cmd.tokens)
            dashed(t) == t # <<>> /\ t[1] = "-"
        IN /\ cmd.tokens # <<>>
           /\ cmd.command = cmd.tokens[1]
           /\ cmd.flags = SelectSeq(rest, LAMBDA t : dashed(t))
           /\ cmd.args = SelectSeq(rest, LAMBDA t : ~dashed(t))
           /\ {cmd.args[i] : i \in 1..Len(cmd.args)}
                  \cap {cmd.flags[i] : i \in 1..Len(cmd.flags)} = {}
           /\ Len(cmd.args) + Len(cmd.flags) = Len(cmd.tokens) - 1

\* a parsed command with a flag between two arguments
W10_FlagBetweenArgs ==
    /\ call.op = "parse"
    /\ call.ret.ok
    /\ Len(call.ret.cmd.tokens) = 4
    /\ Len(call.ret.cmd.args) = 2
    /\ Len(call.ret.cmd.flags) = 1
    /\ call.ret.cmd.tokens[3] = call.ret.cmd.flags[1]

(***************************************************************************)
(* DangerLevel's comparisons: three levels are drawn, then compared.       *)
(***************************************************************************)
\* a < b, a <= b, a > b, a >= b and a == b as DangerLevel computes them
Compare(a, b) ==
    [lt |-> LevelLt(a, b), le |-> LevelLe(a, b), gt |-> LevelGt(a, b),
     ge |-> LevelGe(a, b), eq |-> (a = b)]

InitLevels ==
    /\ NewRegistry.ok
    /\ rules = NewRegistry.rules
    /\ nops = 0
    /\ analyzer = CommandAnalyzerInit(NewRegistry.rules)
    /\ \E a \in DangerLevels, b \in DangerLevels, c \in DangerLevels :
           call = [op |-> "levels_input", a |-> a, b |-> b, c |-> c]

\* the comparisons among a, b and c, a.requires_confirmation and
\* AnalysisResult(danger_level=a).is_safe
LevelsCall ==
    /\ call.op = "levels_input"
    /\ call' = [op |-> "levels", a |-> call.a, b |-> call.b, c |-> call.c,
                ab |-> Compare(call.a, call.b),
                ba |-> Compare(call.b, call.a),
                bc |-> Compare(call.b, call.c),
                ac |-> Compare(call.a, call.c),
                requires_confirmation |-> RequiresConfirmation(call.a),
                is_safe |-> IsSafe([danger_level |-> call.a])]
    /\ UNCHANGED <<rules, nops, analyzer>>

NextLevels == LevelsCall

SpecLevels == InitLevels /\ [][NextLevels]_vars

\* C11: the comparison of danger levels is the strict total order SAFE < LOW
\* < MEDIUM < HIGH < CRITICAL: of a < b, a == b, a > b exactly one holds, <=
\* and >= agree with it, it is transitive; requires_confirmation holds
\* exactly for HIGH and CRITICAL and is_safe exactly for SAFE and LOW.
C11_LevelsTotalOrder ==
    call.op = "levels" =>
        /\ call.ab.lt <=> LevelRank(call.a) < LevelRank(call.b)
        /\ \/ call.ab.lt /\ ~call.ab.eq /\ ~call.ab.gt
           \/ ~call.ab.lt /\ call.ab.eq /\ ~call.ab.gt
           \/ ~call.ab.lt /\ ~call.ab.eq /\ call.ab.gt
        /\ call.ab.gt <=> call.ba.lt
        /\ call.ab.le <=> (call.ab.lt \/ call.ab.eq)
        /\ call.ab.ge <=> (call.ab.gt \/ call.ab.eq)
        /\ (call.ab.lt /\ call.bc.lt) => call.ac.lt
        /\ (call.ab.le /\ call.bc.le) => call.ac.le
        /\ call.requires_confirmation <=> call.a \in {"HIGH", "CRITICAL"}
        /\ call.is_safe <=> call.a \in {"SAFE", "LOW"}

\* three different levels in increasing order were compared
W11_IncreasingChain ==
    /\ call.op = "levels"
    /\ call.a = "LOW" /\ call.b = "HIGH" /\ call.c = "CRITICAL"
    /\ call.ab.lt /\ call.bc.lt /\ call.ac.lt
    /\ call.is_safe /\ ~call.requires_confirmation

(***************************************************************************)
(* One rule applied to one command line: the line is drawn, then parsed    *)
(* and handed to the rule's matches and, when it matches, analyze.         *)
(***************************************************************************)
\* most flag tokens and most other tokens after the command name of a line
MaxFlags == 2
MaxArgs == 2

\* the subsequences of at most n elements of the sequence pool
Picks(pool, n) ==
    {SelectSeq(pool, LAMBDA x : x \in chosen) :
         chosen \in {c \in SUBSET {pool[i] : i \in 1..Len(pool)} :
                         Cardinality(c) <= n}}

\* the sequences of at most n elements of the set pool
Lists(pool, n) == UNION {[1..k -> pool] : k \in 0..n}

\* the command lines made of a head, some flags and some arguments
Lines(head, flagPool, argPool) ==
    {Join(head \o fs \o as) :
         fs \in Picks(flagPool, MaxFlags), as \in Lists(argPool, MaxArgs)}

\* rule.matches(parse(raw)) and rule.analyze(parse(raw)) for the drawn line
RuleCall ==
    /\ call.op = "rule_input"
    /\ Parse(call.raw).ok
    /\ LET cmd == Parse(call.raw).cmd
           matches == RuleMatches(call.rule, cmd)
           raised == IF matches THEN PostInit(RuleAnalyze(call.rule, cmd))
                     ELSE None
       IN call' = [op |-> "rule", rule |-> call.rule, raw |-> call.raw,
                   cmd |-> cmd, matches |-> matches, raised |-> raised,
                   match |-> IF matches /\ raised = None
                             THEN Some(RuleAnalyze(call.rule, cmd))
                             ELSE None]
    /\ UNCHANGED <<rules, nops, analyzer>>

\* the state before a rule is applied to one of the lines
InitRule(rule, lines) ==
    /\ NewRegistry.ok
    /\ rules = NewRegistry.rules
    /\ nops = 0
    /\ analyzer = CommandAnalyzerInit(NewRegistry.rules)
    /\ \E raw \in lines : call = [op |-> "rule_input", rule |-> rule, raw |-> raw]

\* rm with recursive, force and interactive flags in their spellings, alone
\* and combined, on ordinary, system and wildcard targets
RmLines ==
    Lines(<<<<"r", "m">>>>,
          <<<<"-", "r">>, <<"-", "f">>, <<"-", "r", "f">>, <<"-", "i">>, <<"-", "R">>, <<"-", "-",
                  "f", "o", "r", "c", "e">>, <<"-", "-", "r", "e", "c", "u", "r", "s", "i", "v",
                          "e">>, <<"-", "v">>>>,
          {<<"x">>, <<"/">>, <<"/", "t", "m", "p", "/", "x">>, <<"/", "e", "t", "c", "/", "p",
                  "a", "s", "s", "w", "d">>, <<"*", ".", "l", "o", "g">>, <<"/", "*">>})

InitRm == InitRule(Obj("RmRule"), RmLines)

NextRm == RuleCall

SpecRm == InitRm /\ [][NextRm]_vars

\* C12: for an rm command the level is CRITICAL when recursive and force
\* come with a dangerous path or a wildcard target, else HIGH when recursive
\* and force are both present or a dangerous path comes without an
\* interactive flag, else MEDIUM when exactly one of recursive and force is
\* present, else LOW; -rf counts as both flags; rm -rf / is CRITICAL,
\* rm -rf /tmp/x HIGH, rm -f x MEDIUM and rm x LOW.
C12_RmDangerLevels ==
    (call.op = "rule" /\ call.rule = Obj("RmRule")) =>
        LET cmd == call.cmd
            recursive == HasAnyFlag(cmd, RECURSIVE_FLAGS)
            force == HasAnyFlag(cmd, FORCE_FLAGS)
            interactive == HasAnyFlag(cmd, INTERACTIVE_FLAGS)
            dangerous == \E i \in 1..Len(cmd.args) : PathIsDangerous(cmd.args[i])
            wildcard == \E i \in 1..Len(cmd.args) : Contains(cmd.args[i], <<"*">>)
            level == call.match[1].danger_level
        IN /\ call.matches
           /\ level = IF recursive /\ force /\ (dangerous \/ wildcard)
                      THEN "CRITICAL"
                      ELSE IF (recursive /\ force) \/ (dangerous /\ ~interactive)
                      THEN "HIGH"
                      ELSE IF recursive # force THEN "MEDIUM"
                      ELSE "LOW"
           /\ (\E i \in 1..Len(cmd.flags) : cmd.flags[i] = <<"-", "r", "f">>) =>
                  /\ recursive /\ force
                  /\ level \in {"HIGH", "CRITICAL"}
           /\ call.raw = <<"r", "m", " ", "-", "r", "f", " ", "/">> => level = "CRITICAL"
           /\ call.raw = <<"r", "m", " ", "-", "r", "f", " ", "/", "t", "m", "p", "/",
                   "x">> => level = "HIGH"
           /\ call.raw = <<"r", "m", " ", "-", "f", " ", "x">> => level = "MEDIUM"
           /\ call.raw = <<"r", "m", " ", "x">> => level = "LOW"

\* a dangerous path with an interactive flag and neither recursive nor force
W12_DangerousInteractive ==
    /\ call.op = "rule" /\ call.rule = Obj("RmRule")
    /\ call.raw = <<"r", "m", " ", "-", "i", " ", "/", "e", "t", "c", "/", "p", "a", "s", "s",
            "w", "d">>
    /\ call.match[1].danger_level = "LOW"

\* docker with system and prune among the arguments and the all, volumes and
\* force flags in their spellings
DockerLines ==
    Lines(<<<<"d", "o", "c", "k", "e", "r">>>>,
          <<<<"-", "a">>, <<"-", "-", "a", "l", "l">>, <<"-", "-", "v", "o", "l", "u", "m", "e",
                  "s">>, <<"-", "f">>, <<"-", "-", "f", "o", "r", "c", "e">>, <<"-", "a", "f">>>>,
          {<<"s", "y", "s", "t", "e", "m">>, <<"p", "r", "u", "n", "e">>})

InitDocker == InitRule(Obj("DockerSystemPruneRule"), DockerLines)

NextDocker == RuleCall

SpecDocker == InitDocker /\ [][NextDocker]_vars

\* C13: for docker system prune the base level is CRITICAL with the all and
\* the volumes flag, HIGH with one of them, MEDIUM with neither; with a force
\* flag the level is the base raised by one step and capped at CRITICAL, so
\* never below the base.
C13_PruneForceEscalates ==
    (call.op = "rule" /\ call.rule = Obj("DockerSystemPruneRule")
                      /\ call.matches) =>
        LET cmd == call.cmd
            all == HasAnyFlag(cmd, <<<<"-", "a">>, <<"-", "-", "a", "l", "l">>>>)
            volumes == InList(<<"-", "-", "v", "o", "l", "u", "m", "e", "s">>, cmd.flags)
            force == HasAnyFlag(cmd, <<<<"-", "f">>, <<"-", "-", "f", "o", "r", "c", "e">>>>)
            base == IF all /\ volumes THEN "CRITICAL"
                    ELSE IF all \/ volumes THEN "HIGH"
                    ELSE "MEDIUM"
            escalated == IF base = "MEDIUM" THEN "HIGH" ELSE "CRITICAL"
            level == call.match[1].danger_level
        IN /\ level = IF force THEN escalated ELSE base
           /\ LevelRank(level) >= LevelRank(base)

\* git with push and branch names among the arguments and the force flags,
\* exact and inside other tokens; two lines of other commands
GitPushLines ==
    Lines(<<<<"g", "i", "t">>>>,
          <<<<"-", "-", "f", "o", "r", "c", "e">>, <<"-", "f">>, <<"-", "-", "f", "o", "r", "c",
                  "e", "-", "w", "i", "t", "h", "-", "l", "e", "a", "s", "e">>, <<"-", "f",
                          "u">>, <<"-", "-", "f", "o", "r", "c", "e", "d">>, <<"-", "v">>>>,
          {<<"p", "u", "s", "h">>, <<"m", "a", "i", "n">>, <<"o", "r", "i", "g", "i", "n", "/",
                  "m", "a", "s", "t", "e", "r">>, <<"d", "e", "v">>, <<"o", "r", "i", "g", "i",
                          "n">>})
        \cup {<<"h", "g", " ", "p", "u", "s", "h", " ", "-", "-", "f", "o", "r", "c",
                "e">>, <<"p", "u", "s", "h", " ", "g", "i", "t", " ", "-", "f">>}

InitGitPush == InitRule(Obj("GitPushForceRule"), GitPushLines)

NextGitPush == RuleCall

SpecGitPush == InitGitPush /\ [][NextGitPush]_vars

\* C14: GitPushForceRule matches exactly the git commands with push among
\* the arguments and --force, -f or --force-with-lease among the flags; a
\* matched command is MEDIUM with --force-with-lease, otherwise CRITICAL when
\* an argument is main, master, origin/main or origin/master, otherwise HIGH.
C14_GitPushForceLevels ==
    (call.op = "rule" /\ call.rule = Obj("GitPushForceRule")) =>
        LET cmd == call.cmd
            flagTokens == {cmd.flags[i] : i \in 1..Len(cmd.flags)}
            argTokens == {cmd.args[i] : i \in 1..Len(cmd.args)}
            lease == <<"-", "-", "f", "o", "r", "c", "e", "-", "w", "i", "t", "h", "-", "l", "e",
                    "a", "s", "e">> \in flagTokens
            protected == argTokens \cap {<<"m", "a", "i", "n">>, <<"m", "a", "s", "t", "e",
                    "r">>, <<"o", "r", "i", "g", "i", "n", "/", "m", "a", "i", "n">>,
                                         <<"o", "r", "i", "g", "i", "n", "/", "m", "a", "s", "t",
                                                 "e", "r">>} # {}
        IN /\ call.matches <=>
                  /\ cmd.command = <<"g", "i", "t">>
                  /\ <<"p", "u", "s", "h">> \in argTokens
                  /\ flagTokens \cap {<<"-", "-", "f", "o", "r", "c", "e">>, <<"-", "f">>, <<"-",
                          "-", "f", "o", "r", "c", "e", "-", "w", "i", "t", "h", "-", "l", "e",
                                  "a", "s", "e">>} # {}
           /\ call.matches =>
                  call.match[1].danger_level =
                      IF lease THEN "MEDIUM"
                      ELSE IF protected THEN "CRITICAL"
                      ELSE "HIGH"

\* a force push to a protected branch with --force-with-lease also present
W14_LeaseOnProtected ==
    /\ call.op = "rule" /\ call.rule = Obj("GitPushForceRule")
    /\ call.raw = <<"g", "i", "t", " ", "-", "-", "f", "o", "r", "c", "e", " ", "-", "-", "f",
            "o", "r", "c", "e", "-", "w", "i", "t", "h", "-", "l", "e", "a", "s", "e", " ", "p",
                    "u", "s", "h", " ", "m", "a", "i", "n">>
    /\ call.matches
    /\ call.match[1].danger_level = "MEDIUM"

\* C15: when GitPushForceRule yields CRITICAL or HIGH, its safe alternative
\* is the command line with each --force or -f token rewritten to
\* --force-with-lease and every other token unchanged; parsed again it is a
\* git push command with --force-with-lease among its flags that the rule
\* rates MEDIUM.
C15_LeaseAlternative ==
    (call.op = "rule" /\ call.rule = Obj("GitPushForceRule") /\ call.matches
         /\ call.match[1].danger_level \in {"CRITICAL", "HIGH"}) =>
        /\ call.match[1].safe_alternative # None
        /\ LET tokens == call.cmd.tokens
               rewritten ==
                   [i \in 1..Len(tokens) |->
                        IF tokens[i] \in {<<"-", "-", "f", "o", "r", "c", "e">>, <<"-", "f">>}
                        THEN <<"-", "-", "f", "o", "r", "c", "e", "-", "w", "i", "t", "h", "-",
                                "l", "e", "a", "s", "e">> ELSE tokens[i]]
               again == Parse(call.match[1].safe_alternative[1])
           IN /\ again.ok
              /\ again.cmd.tokens = rewritten
              /\ again.cmd.command = <<"g", "i", "t">>
              /\ InList(<<"p", "u", "s", "h">>, again.cmd.args)
              /\ InList(<<"-", "-", "f", "o", "r", "c", "e", "-", "w", "i", "t", "h", "-", "l",
                      "e", "a", "s", "e">>, again.cmd.flags)
              /\ GitPushForceMatches(again.cmd)
              /\ GitPushForceAnalyze(again.cmd).danger_level = "MEDIUM"

\* sudo before destructive and harmless commands on system paths, safe
\* device paths and paths outside the dangerous set
SudoLines ==
    Lines(<<<<"s", "u", "d", "o">>>>,
          <<<<"-", "n">>>>,
          {<<"r", "m">>, <<"l", "s">>, <<"d", "d">>, <<"x">>, <<"/", "t", "m", "p", "/",
                  "x">>, <<".", "/", "a", "/", "b">>, <<"/", "e", "t", "c">>, <<"/", "e", "t",
                          "c", "/", "p", "a", "s", "s", "w", "d">>,
           <<"/", "d", "e", "v", "/", "n", "u", "l", "l">>})

InitSudo == InitRule(Obj("SudoRule"), SudoLines)

NextSudo == RuleCall

SpecSudo == InitSudo /\ [][NextSudo]_vars

\* C16: for a sudo command the level is CRITICAL exactly when the first
\* argument is one of rm, dd, mkfs, fdisk, parted, chmod, chown and some
\* argument is a dangerous system path (a path of the dangerous set or below
\* one, not a safe device source), HIGH when exactly one of the two holds and
\* MEDIUM when neither does; so sudo rm /tmp/x and sudo rm ./a/b are HIGH and
\* sudo ls /tmp/x is MEDIUM.
C16_SudoLevels ==
    (call.op = "rule" /\ call.rule = Obj("SudoRule")) =>
        LET cmd == call.cmd
            destructive ==
                /\ cmd.args # <<>>
                /\ cmd.args[1] \in {<<"r", "m">>, <<"d", "d">>, <<"m", "k", "f", "s">>, <<"f",
                        "d", "i", "s", "k">>, <<"p", "a", "r", "t", "e", "d">>, <<"c", "h", "m",
                                "o", "d">>,
                                    <<"c", "h", "o", "w", "n">>}
            safeSource(arg) ==
                \E p \in {<<"/", "d", "e", "v", "/", "z", "e", "r", "o">>, <<"/", "d", "e", "v",
                        "/", "n", "u", "l", "l">>, <<"/", "d", "e", "v", "/", "r", "a", "n", "d",
                                "o", "m">>, <<"/", "d", "e", "v", "/", "u", "r", "a", "n", "d",
                                        "o", "m">>} :
                    arg = p \/ StartsWith(arg, p \o <<"/">>)
            system ==
                \E i \in 1..Len(cmd.args) :
                    PathIsDangerous(cmd.args[i]) /\ ~safeSource(cmd.args[i])
            level == call.match[1].danger_level
        IN /\ call.matches
           /\ level = IF destructive /\ system THEN "CRITICAL"
                      ELSE IF destructive \/ system THEN "HIGH"
                      ELSE "MEDIUM"
           /\ call.raw \in {<<"s", "u", "d", "o", " ", "r", "m", " ", "/", "t", "m", "p", "/",
                   "x">>, <<"s", "u", "d", "o", " ", "r", "m", " ", ".", "/", "a", "/",
                           "b">>} => level = "HIGH"
           /\ call.raw = <<"s", "u", "d", "o", " ", "l", "s", " ", "/", "t", "m", "p", "/",
                   "x">> => level = "MEDIUM"

(***************************************************************************)
(* ParsedCommand.get_flag_value: a line is drawn, parsed, and asked for    *)
(* the value of a flag.                                                    *)
(***************************************************************************)
RECURSIVE AfterFirst(_, _)
\* s.split(c, 1)[1] for a text s that contains the character c
AfterFirst(s, c) == IF s[1] = c THEN Tail(s) ELSE AfterFirst(Tail(s), c)

\* ParsedCommand.get_flag_value
GetFlagValue(cmd, flag) ==
    LET withEquals == SelectSeq(cmd.flags,
                                LAMBDA f : StartsWith(f, flag \o <<"=">>))
    IN IF withEquals # <<>>
       THEN Some(AfterFirst(withEquals[1], "="))
       ELSE IF InList(flag, cmd.flags)
       THEN LET idx == (CHOOSE i \in 1..Len(cmd.flags) :
                            /\ cmd.flags[i] = flag
                            /\ \A j \in 1..(i - 1) : cmd.flags[j] # flag) - 1
            IN IF idx + 1 < Len(cmd.args) THEN Some(cmd.args[idx + 2])
               ELSE None
       ELSE None

\* cmd followed by up to MaxWords tokens: flags bare and with =value, and
\* other tokens
FlagValueLines ==
    {Join(<<<<"c", "m", "d">>>> \o ws) :
         ws \in Lists({<<"-", "o">>, <<"-", "v">>, <<"-", "o", "=",
                 "f">>, <<"f">>, <<"g">>}, MaxWords)}

InitFlagValue ==
    /\ NewRegistry.ok
    /\ rules = NewRegistry.rules
    /\ nops = 0
    /\ analyzer = CommandAnalyzerInit(NewRegistry.rules)
    /\ \E raw \in FlagValueLines, flag \in {<<"-", "o">>, <<"-", "v">>} :
           call = [op |-> "flag_value_input", raw |-> raw, flag |-> flag]

\* parse(raw).get_flag_value(flag)
FlagValueCall ==
    /\ call.op = "flag_value_input"
    /\ Parse(call.raw).ok
    /\ call' = [op |-> "get_flag_value", raw |-> call.raw, flag |-> call.flag,
                cmd |-> Parse(call.raw).cmd,
                ret |-> GetFlagValue(Parse(call.raw).cmd, call.flag)]
    /\ UNCHANGED <<rules, nops, analyzer>>

NextFlagValue == FlagValueCall

SpecFlagValue == InitFlagValue /\ [][NextFlagValue]_vars

\* C17: get_flag_value(f) returns the value of a flag token f=value when
\* there is one; otherwise, when f is a bare flag token with no flag before
\* it and a non-flag token right after it, that following token; and None
\* when f is absent.
C17_FlagValue ==
    call.op = "get_flag_value" =>
        LET tokens == call.cmd.tokens
            f == call.flag
            hasEquals == \E i \in 2..Len(tokens) : StartsWith(tokens[i], f \o <<"=">>)
            bare == \E i \in 2..Len(tokens) : tokens[i] = f
            firstFlagFollowed(p) ==
                /\ tokens[p] = f
                /\ \A j \in 2..(p - 1) : ~IsFlagToken(tokens[j])
                /\ p + 1 <= Len(tokens)
                /\ ~IsFlagToken(tokens[p + 1])
        IN /\ hasEquals =>
                  /\ call.ret # None
                  /\ \E i \in 2..Len(tokens) : tokens[i] = f \o <<"=">> \o call.ret[1]
           /\ ~hasEquals =>
                  \A p \in 2..Len(tokens) :
                      firstFlagFollowed(p) => call.ret = Some(tokens[p + 1])
           /\ (~hasEquals /\ ~bare) => call.ret = None

\* the calls that only read the registry
ReadingCalls ==
    {"analyze", "analyze_batch", "find_matching_rules", "analyze_command",
     "get_highest_danger_level"}

WithoutForceFlags(flags) == SelectSeq(flags, LAMBDA f : ~InList(f, FORCE_FLAGS))

\* SafeAlternativeGenerator._safe_rm
SafeRm(cmd) ==
    IF HasAnyFlag(cmd, INTERACTIVE_FLAGS) THEN None
    ELSE Some(Join(<<cmd.command>> \o <<<<"-", "i">>>> \o cmd.flags \o cmd.args))

\* SafeAlternativeGenerator._safe_mv
SafeMv(cmd) ==
    IF HasAnyFlag(cmd, INTERACTIVE_FLAGS) THEN None
    ELSE Some(Join(<<cmd.command>> \o <<<<"-", "i">>>> \o WithoutForceFlags(cmd.flags)
                       \o cmd.args))

\* SafeAlternativeGenerator._safe_cp
SafeCp(cmd) ==
    IF HasAnyFlag(cmd, INTERACTIVE_FLAGS) THEN None
    ELSE IF ~HasAnyFlag(cmd, FORCE_FLAGS) THEN None
    ELSE Some(Join(<<cmd.command>> \o <<<<"-", "i">>>> \o WithoutForceFlags(cmd.flags)
                       \o cmd.args))

\* SafeAlternativeGenerator._safe_chmod
SafeChmod(cmd) ==
    LET new_args == [i \in 1..Len(cmd.args) |->
                         IF cmd.args[i] \in {<<"7", "7", "7">>, <<"a", "+", "r", "w",
                                 "x">>, <<"u", "g", "o", "+", "r", "w", "x">>} THEN <<"7", "5",
                                         "5">>
                         ELSE IF cmd.args[i] = <<"6", "6", "6">> THEN <<"6", "4", "4">>
                         ELSE cmd.args[i]]
    IN IF new_args = cmd.args THEN None
       ELSE Some(Join(<<cmd.command>> \o cmd.flags \o new_args))

\* SafeAlternativeGenerator.generate (_safe_chown returns None)
Generate(cmd) ==
    IF cmd.command = <<"r", "m">> THEN SafeRm(cmd)
    ELSE IF cmd.command = <<"m", "v">> THEN SafeMv(cmd)
    ELSE IF cmd.command = <<"c", "p">> THEN SafeCp(cmd)
    ELSE IF cmd.command = <<"c", "h", "m", "o", "d">> THEN SafeChmod(cmd)
    ELSE IF cmd.command = <<"c", "h", "o", "w", "n">> THEN None
    ELSE None

\* rm, mv, cp, chown and another command with interactive, force and
\* recursive flags, alone and combined, on plain and quoted arguments
SuggestLines ==
    UNION {Lines(<<head>>,
                 <<<<"-", "i">>, <<"-", "f">>, <<"-", "r", "f">>, <<"-", "r">>, <<"-", "-", "f",
                         "o", "r", "c", "e">>>>,
                 {<<"x">>, <<"y">>, <<"'", "a", " ", "b", "'">>,
                  <<"\"", "a", "'", "b", "\"">>}) :
               head \in {<<"r", "m">>, <<"m", "v">>, <<"c", "p">>, <<"c", "h", "o", "w",
                       "n">>, <<"l", "s">>}}

InitSuggest ==
    /\ NewRegistry.ok
    /\ rules = NewRegistry.rules
    /\ nops = 0
    /\ analyzer = CommandAnalyzerInit(NewRegistry.rules)
    /\ \E raw \in SuggestLines : call = [op |-> "generate_input", raw |-> raw]

\* SafeAlternativeGenerator().generate(parse(raw))
GenerateCall ==
    /\ call.op = "generate_input"
    /\ Parse(call.raw).ok
    /\ call' = [op |-> "generate", raw |-> call.raw,
                cmd |-> Parse(call.raw).cmd,
                ret |-> Generate(Parse(call.raw).cmd)]
    /\ UNCHANGED <<rules, nops, analyzer>>

NextSuggest == GenerateCall

SpecSuggest == InitSuggest /\ [][NextSuggest]_vars

\* C19: when generate returns an alternative for an rm, mv or cp command,
\* the alternative parses, and gives a command with the same name, with
\* has_flag(-i) and with the original arguments in the same order; generate
\* returns None for rm, mv and cp with an interactive flag, for cp without a
\* force flag, for chown and for the command names it does not handle.
C19_AlternativeReparses ==
    call.op = "generate" =>
        LET cmd == call.cmd
            again == Parse(call.ret[1])
        IN /\ (cmd.command \in {<<"r", "m">>, <<"m", "v">>, <<"c", "p">>} /\ call.ret # None) =>
                  /\ again.ok
                  /\ again.cmd.command = cmd.command
                  /\ HasFlag(again.cmd, <<"-", "i">>)
                  /\ again.cmd.args = cmd.args
           /\ (cmd.command \in {<<"r", "m">>, <<"m", "v">>, <<"c", "p">>}
                   /\ HasAnyFlag(cmd, INTERACTIVE_FLAGS)) => call.ret = None
           /\ (cmd.command = <<"c", "p">> /\ ~HasAnyFlag(cmd, FORCE_FLAGS)) =>
                  call.ret = None
           /\ cmd.command = <<"c", "h", "o", "w", "n">> => call.ret = None
           /\ cmd.command \notin {<<"r", "m">>, <<"m", "v">>, <<"c", "p">>, <<"c", "h", "m", "o",
                   "d">>, <<"c", "h", "o", "w", "n">>} =>
                  call.ret = None

\* C20: for mv without an interactive flag and for cp with a force flag and
\* without an interactive flag, an alternative is generated and, parsed
\* again, has none of the force flags -f, -F, --force, also when force came
\* inside a combined short flag such as -rf, whose recursive flag is kept.
C20_ForceStripped ==
    (call.op = "generate"
        /\ ~HasAnyFlag(call.cmd, INTERACTIVE_FLAGS)
        /\ \/ call.cmd.command = <<"m", "v">>
           \/ call.cmd.command = <<"c", "p">> /\ HasAnyFlag(call.cmd, FORCE_FLAGS)) =>
        /\ call.ret # None
        /\ LET again == Parse(call.ret[1]) IN
           /\ again.ok
           /\ ~HasAnyFlag(again.cmd, FORCE_FLAGS)
           /\ HasAnyFlag(call.cmd, RECURSIVE_FLAGS) =>
                  HasAnyFlag(again.cmd, RECURSIVE_FLAGS)

\* C21: in the view-alternatives step the three kinds of options have
\* three outcomes: picking an alternative executes that alternative,
\* picking "Use original command" executes the original command string,
\* and picking "Abort" executes nothing and exits with 0.
C21_ViewAlternativesOutcomes ==
    (/\ call.op = "main"
     /\ call.run.shown # <<>>
     /\ call.run.shown[Len(call.run.shown)] = "select"
     /\ ConfirmExecution(Analyze(NewRegistry.rules,
                                 Parse(CommandStr(call.command)).cmd),
                         call.yes, call.answers).response
            = "VIEW_ALTERNATIVE") =>
        LET alternatives ==
                Analyze(NewRegistry.rules,
                        Parse(CommandStr(call.command)).cmd).safe_alternatives
            answer == call.answers[Len(call.run.shown)]
        IN /\ answer \in 1..Len(alternatives) =>
                  call.run.executed = <<alternatives[answer]>>
           /\ answer = Len(alternatives) + 1 =>
                  call.run.executed = <<CommandStr(call.command)>>
           /\ answer = Len(alternatives) + 2 =>
                  /\ call.run.executed = <<>>
                  /\ call.run.exit_code = 0

\* docker with volume and prune among the arguments and the force flag in
\* its spellings
VolumePruneLines ==
    Lines(<<<<"d", "o", "c", "k", "e", "r">>>>,
          <<<<"-", "f">>, <<"-", "-", "f", "o", "r", "c", "e">>, <<"-", "a">>>>,
          {<<"v", "o", "l", "u", "m", "e">>, <<"p", "r", "u", "n", "e">>, <<"x">>})

InitVolumePrune == InitRule(Obj("DockerVolumePruneRule"), VolumePruneLines)

NextVolumePrune == RuleCall

SpecVolumePrune == InitVolumePrune /\ [][NextVolumePrune]_vars

\* C22: for docker volume prune the level is CRITICAL with a force flag
\* (-f or --force) and HIGH without, and the safe alternative is the listing
\* command docker volume ls, with or without the force flag.
C22_VolumePrune ==
    (call.op = "rule" /\ call.rule = Obj("DockerVolumePruneRule")
                      /\ call.matches) =>
        LET force == InList(<<"-", "f">>, call.cmd.flags)
                         \/ InList(<<"-", "-", "f", "o", "r", "c", "e">>, call.cmd.flags)
        IN /\ call.match[1].danger_level = IF force THEN "CRITICAL" ELSE "HIGH"
           /\ call.match[1].safe_alternative = Some(<<"d", "o", "c", "k", "e", "r", " ", "v", "o",
                   "l", "u", "m", "e", " ", "l", "s">>)

\* docker rm with the force and volumes flags in their spellings, alone and
\* combined, on one target, several targets and a wildcard
DockerRmLines ==
    Lines(<<<<"d", "o", "c", "k", "e", "r">>, <<"r", "m">>>>,
          <<<<"-", "f">>, <<"-", "-", "f", "o", "r", "c", "e">>, <<"-", "v">>, <<"-", "-", "v",
                  "o", "l", "u", "m", "e", "s">>, <<"-", "f", "v">>>>,
          {<<"x">>, <<"y">>, <<"*">>})

InitDockerRm == InitRule(Obj("DockerRmRule"), DockerRmLines)

NextDockerRm == RuleCall

SpecDockerRm == InitDockerRm /\ [][NextDockerRm]_vars

\* C23: for docker rm, with force and volumes seen also inside combined
\* short flags and multiple meaning several targets or a wildcard, the level
\* is CRITICAL with force, volumes and multiple, HIGH with force and
\* multiple, HIGH with volumes, MEDIUM with force only and LOW otherwise;
\* whenever force is present the safe alternative is docker stop followed by
\* the same targets.
C23_DockerRm ==
    (call.op = "rule" /\ call.rule = Obj("DockerRmRule") /\ call.matches) =>
        LET cmd == call.cmd
            combined(c) == \E i \in 1..Len(cmd.flags) :
                               /\ StartsWith(cmd.flags[i], <<"-">>)
                               /\ ~StartsWith(cmd.flags[i], <<"-", "-">>)
                               /\ Contains(cmd.flags[i], c)
            force == InList(<<"-", "-", "f", "o", "r", "c", "e">>, cmd.flags) \/ combined(<<"f">>)
            volumes == InList(<<"-", "-", "v", "o", "l", "u", "m", "e",
                    "s">>, cmd.flags) \/ combined(<<"v">>)
            targets == SelectSeq(cmd.args, LAMBDA a : a # <<"r", "m">>)
            multiple == Len(targets) > 1
                            \/ \E i \in 1..Len(targets) : Contains(targets[i], <<"*">>)
        IN /\ call.match[1].danger_level =
                  IF force /\ volumes /\ multiple THEN "CRITICAL"
                  ELSE IF force /\ multiple THEN "HIGH"
                  ELSE IF volumes THEN "HIGH"
                  ELSE IF force THEN "MEDIUM"
                  ELSE "LOW"
           /\ force => call.match[1].safe_alternative
                           = Some(<<"d", "o", "c", "k", "e", "r", " ", "s", "t", "o", "p",
                                   " ">> \o Join(targets))

\* git reset with the mode flags, alone and together, with and without a
\* reference to an earlier commit
GitResetLines ==
    Lines(<<<<"g", "i", "t">>, <<"r", "e", "s", "e", "t">>>>,
          <<<<"-", "-", "h", "a", "r", "d">>, <<"-", "-", "s", "o", "f", "t">>, <<"-", "-", "m",
                  "i", "x", "e", "d">>, <<"-", "q">>>>,
          {<<"H", "E", "A", "D", "~", "1">>, <<"H", "E", "A", "D", "^">>, <<"x">>})

InitGitReset == InitRule(Obj("GitResetRule"), GitResetLines)

NextGitReset == RuleCall

SpecGitReset == InitGitReset /\ [][NextGitReset]_vars

\* C24: for git reset, --hard with an argument holding HEAD~ or HEAD^ is
\* CRITICAL; --hard without one is HIGH, and its alternative is the command
\* with --hard swapped to --soft; otherwise explicit --mixed, or no --soft,
\* is MEDIUM and its alternative has --soft inserted after reset; otherwise
\* (--soft) it is LOW with no alternative.  Every alternative the rule
\* produces is rated LOW by the rule.
C24_GitReset ==
    (call.op = "rule" /\ call.rule = Obj("GitResetRule") /\ call.matches) =>
        LET cmd == call.cmd
            hard == InList(<<"-", "-", "h", "a", "r", "d">>, cmd.flags)
            soft == InList(<<"-", "-", "s", "o", "f", "t">>, cmd.flags)
            mixed == InList(<<"-", "-", "m", "i", "x", "e", "d">>, cmd.flags)
            head_ref == \E i \in 1..Len(cmd.args) :
                            \/ Contains(cmd.args[i], <<"H", "E", "A", "D", "~">>)
                            \/ Contains(cmd.args[i], <<"H", "E", "A", "D", "^">>)
            match == call.match[1]
        IN /\ IF hard /\ head_ref THEN match.danger_level = "CRITICAL"
              ELSE IF hard
              THEN /\ match.danger_level = "HIGH"
                   /\ match.safe_alternative
                          = Some(Replace(cmd.raw, <<"-", "-", "h", "a", "r", "d">>, <<"-", "-",
                                  "s", "o", "f", "t">>))
              ELSE IF mixed \/ ~soft
              THEN /\ match.danger_level = "MEDIUM"
                   /\ match.safe_alternative
                          = Some(Replace(cmd.raw, <<"r", "e", "s", "e", "t">>, <<"r", "e", "s",
                                  "e", "t", " ", "-", "-", "s", "o", "f", "t">>))
              ELSE /\ match.danger_level = "LOW"
                   /\ match.safe_alternative = None
           /\ match.safe_alternative # None =>
                  LET again == Parse(match.safe_alternative[1])
                  IN /\ again.ok
                     /\ GitResetMatches(again.cmd)
                     /\ GitResetAnalyze(again.cmd).danger_level = "LOW"

(***************************************************************************)
(* Every default rule on command lines of every family, and RuleMatch      *)
(* constructed from given names and messages.                              *)
(***************************************************************************)
\* the heads of the command lines: each rule's command, and one no rule knows
EveryRuleHeads ==
    {<<<<"r", "m">>>>, <<<<"m", "v">>>>, <<<<"c", "p">>>>, <<<<"c", "h", "m", "o",
            "d">>>>, <<<<"c", "h", "o", "w", "n">>>>,
     <<<<"g", "i", "t">>, <<"r", "e", "s", "e", "t">>>>, <<<<"g", "i", "t">>, <<"p", "u", "s",
             "h">>>>, <<<<"g", "i", "t">>, <<"c", "l", "e", "a", "n">>>>,
     <<<<"g", "i", "t">>, <<"b", "r", "a", "n", "c", "h">>>>, <<<<"d", "o", "c", "k", "e",
             "r">>, <<"s", "y", "s", "t", "e", "m">>, <<"p", "r", "u", "n", "e">>>>,
     <<<<"d", "o", "c", "k", "e", "r">>, <<"r", "m">>>>, <<<<"d", "o", "c", "k", "e",
             "r">>, <<"r", "m", "i">>>>, <<<<"d", "o", "c", "k", "e", "r">>, <<"v", "o", "l", "u",
                     "m", "e">>, <<"p", "r", "u", "n", "e">>>>,
     <<<<"s", "u", "d", "o">>>>, <<<<"d", "d">>>>, <<<<"k", "i", "l", "l">>>>, <<<<"k", "i", "l",
             "l", "a", "l", "l">>>>, <<<<"s", "h", "u", "t", "d", "o", "w", "n">>>>,
     <<<<"r", "e", "b", "o", "o", "t">>>>, <<<<"m", "k", "f", "s">>>>, <<<<"m", "k", "f", "s",
             ".", "e", "x", "t", "4">>>>, <<<<"e", "c", "h", "o">>>>}

EveryRuleLines ==
    UNION {Lines(head, <<<<"-", "f">>, <<"-", "r", "f">>, <<"-", "D">>>>, {<<"/">>, <<"o", "f",
            "=">>}) :
               head \in EveryRuleHeads}

\* the default rules, as registered
DefaultRules == {Obj(DefaultRuleClasses[i]) : i \in 1..Len(DefaultRuleClasses)}

InitEveryRule ==
    /\ NewRegistry.ok
    /\ rules = NewRegistry.rules
    /\ nops = 0
    /\ analyzer = CommandAnalyzerInit(NewRegistry.rules)
    /\ \/ \E rule \in DefaultRules, raw \in EveryRuleLines :
              call = [op |-> "rule_input", rule |-> rule, raw |-> raw]
       \/ \E name \in {"", "test_rule"}, message \in {"", "Test message"} :
              call = [op |-> "rule_match_input", name |-> name,
                      message |-> Msg(message)]

\* RuleMatch(rule_name=name, danger_level=DangerLevel.LOW, message=message)
RuleMatchCall ==
    /\ call.op = "rule_match_input"
    /\ call' = [op |-> "rule_match", name |-> call.name,
                message |-> call.message,
                raised |-> PostInit(RuleMatch(call.name, "LOW", call.message,
                                              None, None))]
    /\ UNCHANGED <<rules, nops, analyzer>>

NextEveryRule == RuleCall \/ RuleMatchCall

SpecEveryRule == InitEveryRule /\ [][NextEveryRule]_vars

\* C25: constructing a RuleMatch raises ValueError exactly when rule_name or
\* message is empty; every default rule, on a command it matches, returns
\* without raising a RuleMatch whose rule_name is the rule's name and is not
\* empty and whose message is not empty.
C25_WellFormedMatches ==
    /\ call.op = "rule_match" =>
           (call.raised # None <=> (call.name = "" \/ call.message = Msg("")))
    /\ (call.op = "rule" /\ call.rule \in DefaultRules /\ call.matches) =>
           /\ call.raised = None
           /\ call.match # None
           /\ call.match[1].rule_name = RuleName(call.rule)
           /\ call.match[1].rule_name # ""
           /\ call.match[1].message # Msg("")

\* sudo with nothing after it was analysed by SudoRule
W25_SudoAlone ==
    /\ call.op = "rule"
    /\ call.rule = Obj("SudoRule")
    /\ call.matches
    /\ call.cmd.args = <<>>
    /\ call.match # None

(***************************************************************************)
(* The analyzer with the default registry on command lines of every rule   *)
(* family, some with a quoted argument holding blanks and flag-like text.  *)
(***************************************************************************)
AlternativeLines ==
    UNION {Lines(head, <<<<"-", "f">>, <<"-", "r", "f">>, <<"-", "D">>, <<"-", "-", "f", "o", "r",
            "c", "e">>>>,
                 {<<"/">>, <<"m", "a", "i", "n">>, <<"'", "x", " ", "-", "r", "f", " ", "/",
                         "'">>}) :
               head \in EveryRuleHeads}

InitAlternatives ==
    /\ NewRegistry.ok
    /\ rules = NewRegistry.rules
    /\ nops = 0
    /\ analyzer = CommandAnalyzerInit(NewRegistry.rules)
    /\ \E raw \in AlternativeLines : call = [op |-> "analyze_input", raw |-> raw]

\* CommandAnalyzer().analyze(parse(raw)), on the line drawn at the start
AnalyzeLineCall ==
    /\ call.op = "analyze_input"
    /\ AnalyzeCall(call.raw)

NextAlternatives == AnalyzeLineCall

SpecAlternatives == InitAlternatives /\ [][NextAlternatives]_vars

\* C26: every safe alternative of an analysis result parses and, analysed
\* with the same default registry, has a danger level no higher than that of
\* the original command, also when an original argument holds blanks or
\* flag-like text inside quotes.
C26_AlternativesNoMoreDangerous ==
    call.op = "analyze" =>
        \A i \in 1..Len(call.result.safe_alternatives) :
            LET again == Parse(call.result.safe_alternatives[i])
            IN /\ again.ok
               /\ LevelLe(Analyze(AnalyzerRegistry, again.cmd).danger_level,
                          call.result.danger_level)

\* C27: prefixing a command with sudo never lowers its verdict: with the
\* default registry the danger level of sudo c is at least that of c.
C27_SudoNeverLowers ==
    call.op = "analyze" =>
        LET sudo == Parse(<<"s", "u", "d", "o", " ">> \o call.raw)
        IN /\ sudo.ok
           /\ LevelGe(Analyze(AnalyzerRegistry, sudo.cmd).danger_level,
                      call.result.danger_level)

InitConfirm ==
    /\ NewRegistry.ok
    /\ rules = NewRegistry.rules
    /\ nops = 0
    /\ analyzer = CommandAnalyzerInit(NewRegistry.rules)
    /\ \E command \in Commands, skip_prompt \in BOOLEAN,
          answers \in [1..2 -> 0..MaxChoice] :
           /\ command # <<>>
           /\ Parse(CommandStr(command)).ok
           /\ call = [op |-> "confirm_execution_input",
                      result |-> Analyze(NewRegistry.rules,
                                         Parse(CommandStr(command)).cmd),
                      skip_prompt |-> skip_prompt, answers |-> answers]

\* prompt.confirm_execution(result, skip_prompt=skip_prompt)
ConfirmExecutionCall ==
    /\ call.op = "confirm_execution_input"
    /\ LET ret == ConfirmExecution(call.result, call.skip_prompt, call.answers)
       IN /\ ret.valid
          /\ call' = [op |-> "confirm_execution", result |-> call.result,
                      skip_prompt |-> call.skip_prompt,
                      answers |-> call.answers, ret |-> ret]
    /\ UNCHANGED <<rules, nops, analyzer>>

NextConfirm == ConfirmExecutionCall

SpecConfirm == InitConfirm /\ [][NextConfirm]_vars

\* C29: confirm_execution returns ABORT, CONTINUE or VIEW_ALTERNATIVE, never
\* USE_ALTERNATIVE; VIEW_ALTERNATIVE only when the result has safe
\* alternatives; and CONTINUE without asking the user exactly when
\* skip_prompt is set or the danger level is SAFE or LOW.
C29_ConfirmExecutionResponses ==
    call.op = "confirm_execution" =>
        /\ call.ret.response \in {"ABORT", "CONTINUE", "VIEW_ALTERNATIVE"}
        /\ call.ret.response = "VIEW_ALTERNATIVE" =>
               call.result.safe_alternatives # <<>>
        /\ (call.ret.response = "CONTINUE" /\ call.ret.shown = <<>>)
               <=> (call.skip_prompt
                        \/ call.result.danger_level \in {"SAFE", "LOW"})

\* the user was asked about a CRITICAL command with a safe alternative and
\* chose to view the alternatives
W29_ViewChosen ==
    /\ call.op = "confirm_execution"
    /\ ~call.skip_prompt
    /\ call.result.danger_level = "CRITICAL"
    /\ call.ret.shown = <<"select">>
    /\ call.ret.response = "VIEW_ALTERNATIVE"

\* C30: for every content of the registry and every command,
\* registry.get_highest_danger_level(cmd) equals
\* CommandAnalyzer(registry).analyze(cmd).danger_level, and is SAFE when no
\* rule of the registry matches.
C30_HighestLevelIsAnalyzerLevel ==
    call.op = "get_highest_danger_level" =>
        LET cmd == Parse(call.raw).cmd
            built == CommandAnalyzerInit(rules)
            registry == IF built.own THEN built.registry ELSE rules
        IN /\ call.ret = Analyze(registry, cmd).danger_level
           /\ FindMatchingRules(rules, cmd) = <<>> => call.ret = "SAFE"

=============================================================================
